---- MODULE Spec2Model ----
(***************************************************************************)
(* Dashboard engine of LoggyLogger: the log store of LoggyLoggerApp        *)
(* (public/assets/app.js), the checks registry ChecksManager and the       *)
(* search filter of LogRenderer (public/assets/performance-monitor.js),    *)
(* and the transport WebSocketManager (public/assets/app.js) with the      *)
(* sockets and timers of the browser it drives; and, of the Node side, the *)
(* level gate of Logger (src/Logger/index.ts) and the production mode of   *)
(* LoggyLogger.createLogger (src/index.ts), and the broadcast of the       *)
(* server (src/server.ts).                                                 *)
(*                                                                         *)
(* Strings that the code inspects character by character (search text,    *)
(* log arguments) are tuples of one-character strings.  Times are whole    *)
(* milliseconds, reconnect delays are sixteenths of a millisecond so that  *)
(* 1000 * 1.5^k is exact.  The browser is single threaded: every action is one     *)
(* event handler run to completion.                                        *)
(***************************************************************************)
EXTENDS Naturals, Integers, Sequences, FiniteSets, TLC

(***************************************************************************)
(* Bounds of the model.                                                    *)
(***************************************************************************)
\* largest buffer capacity offered by the slider (the presets are 1..MaxBuffer)
MaxBuffer == 2
\* entries appended between two clear-all operations
MaxLogId == 2
\* clear-all operations in one behaviour
MaxClears == 1
\* checks ever created in one behaviour
MaxCheckId == 1
\* length of a search pattern
MaxPat == 2
\* entries appended between two clear-all operations when only the store is driven
MaxStoreLogId == 4
\* checks deleted while the registry is filled to its capacity
MaxDeleted == 1
\* sockets that exist at one time (connecting, open or closing)
MaxSockets == 2
\* reconnect schedules (timeout and countdown) that exist at one time
MaxTimers == 2
\* value of _reconnectAttempts up to which the reconnect timer is let fire, when
\* connect() and disconnect() are called at any time
MaxAttempts == 2
\* the same when the user leaves the transport alone
MaxBackoffAttempts == 10
\* Node-side loggers constructed in one behaviour
MaxLoggers == 2
\* interfaces of Node-side loggers created and bound in one behaviour
MaxBound == 3
\* ticks of the clock of the debounce in the delay of its timeout
DebounceSteps == 2
\* timeouts of the debounce that can be pending together
MaxDebounce == 2
\* input events of filterInput that follow one another
MaxBurst == 3
\* log frames the server broadcasts in one behaviour
MaxSerial == 1
\* entries appended and checks created when runCheck is called from outside
MaxRunLogId == 2
MaxRunCheckId == 2
\* entries appended when the registry is driven from outside alone
MaxRegistryLogId == 1

(***************************************************************************)
(* Program constants.                                                      *)
(***************************************************************************)
maxChecks == 100
killswitchThreshold == 25
\* WebSocketManager
maxReconnectDelay == 15000
\* the delay of the timeout of the filterInput listener, in ms
debounceDelay == 500
baseReconnectDelay == 1000
\* the period of the countdown interval of _scheduleReconnect
countdownPeriod == 1000
\* `if (checksTime > 1000)` of _addLog
overloadThreshold == 1000
\* this._maxSamples of PerformanceMonitor
maxSamples == 100
\* `const threshold = 50` of _isAtBottom
atBottomThreshold == 50

(***************************************************************************)
(* The page: heights, in px, of the list and of the elements of entries    *)
(* with up to two arguments and with more.                                 *)
(***************************************************************************)
ClientHeight == 100
ShortRowHeight == 50
TallRowHeight == 150
trialThreshold == 10

\* Outcomes of performance.now() differences that the handlers can observe.
TrialTimes == {trialThreshold, trialThreshold + 1}
ExecTimes == {killswitchThreshold, killswitchThreshold + 1}

LOG_LEVELS == {"silly", "verbose", "debug", "log", "info", "success", "warn", "error", "fatal"}
DefaultLogLevels == {"info", "success", "warn", "error", "fatal"}

\* Capacities of the buffer slider, scaled down from [100, 500, ..., 50000].
BUFFER_PRESETS == [i \in 1..MaxBuffer |-> i]

(***************************************************************************)
(* Option values: <<>> is null, <<x>> is x.                                *)
(***************************************************************************)
None == <<>>
Some(x) == <<x>>

Min(a, b) == IF a <= b THEN a ELSE b

\* K applied to the value v: names an intermediate result of a handler
Then(v, K(_)) == K(v)

SeqToSet(s) == {s[i] : i \in 1..Len(s)}

\* Array.prototype.filter on a sequence: the elements that are in keep
FilterSeq(s, keep) == SelectSeq(s, LAMBDA x : x \in keep)

(***************************************************************************)
(* Characters and text.                                                    *)
(***************************************************************************)
Chars == {"a", "A", "[", "]", " "}

\* String.prototype.toLowerCase, one character
LowerChar(c) == IF c = "A" THEN "a" ELSE c
ToLowerCase(s) == [i \in 1..Len(s) |-> LowerChar(s[i])]

\* String.prototype.includes
Includes(text, pat) ==
    \E i \in 0..(Len(text) - Len(pat)) :
        \A j \in 1..Len(pat) : text[i + j] = pat[j]

\* Array.prototype.join(' ') over arguments that are strings
RECURSIVE JoinArgs(_)
JoinArgs(args) ==
    IF args = <<>> THEN <<>>
    ELSE IF Len(args) = 1 THEN Head(args)
    ELSE Head(args) \o <<" ">> \o JoinArgs(Tail(args))

\* LogRenderer.formatArgs for string arguments
formatArgs(args) == JoinArgs(args)

(***************************************************************************)
(* new RegExp(filter, 'gi') on the fragment of the pattern language the    *)
(* alphabet can spell: a literal character, and a character class          *)
(* "[...]" closed by the first "]".  An unclosed "[" is a SyntaxError.     *)
(* A compiled pattern is the sequence of its atoms, each atom the set of   *)
(* (lower-cased) characters it accepts.                                    *)
(***************************************************************************)
LowerSet(s) == {LowerChar(s[i]) : i \in 1..Len(s)}

ClassEnd(p) ==
    IF \E k \in 2..Len(p) : p[k] = "]"
    THEN CHOOSE k \in 2..Len(p) : p[k] = "]" /\ \A j \in 2..(k - 1) : p[j] # "]"
    ELSE 0

RECURSIVE RegExpCompile(_)
RegExpCompile(p) ==
    IF p = <<>> THEN Some(<<>>)
    ELSE IF Head(p) = "["
         THEN IF ClassEnd(p) = 0 THEN None
              ELSE LET rest == RegExpCompile(SubSeq(p, ClassEnd(p) + 1, Len(p)))
                   IN  IF rest = None THEN None
                       ELSE Some(<<LowerSet(SubSeq(p, 2, ClassEnd(p) - 1))>> \o rest[1])
         ELSE LET rest == RegExpCompile(Tail(p))
              IN  IF rest = None THEN None
                  ELSE Some(<<{LowerChar(Head(p))}>> \o rest[1])

\* RegExp.prototype.test from lastIndex 0, flag i
RegExpTest(atoms, text) ==
    \E i \in 0..(Len(text) - Len(atoms)) :
        \A j \in 1..Len(atoms) : LowerChar(text[i + j]) \in atoms[j]

(***************************************************************************)
(* Inbound wire events and check sources.                                  *)
(***************************************************************************)
\* logData.type.slice(4): the "log-" prefix removed
Slice4(type) ==
    CASE type = "log-info" -> "info"
      [] type = "log-error" -> "error"
      [] type = "log-debug" -> "debug"
      [] type = "log-warn" -> "warn"

\* The frames the transport delivers in the model.
LogDatas ==
    { [type |-> "log-info", callLine |-> "a.js:1", argList |-> << <<"a">> >>],
      [type |-> "log-error", callLine |-> "b.js:2", argList |-> << <<"[", "A">>, <<"a">> >>] }

\* Frames from further call sites: with a column, without a line, without a
\* call line (data.callLine || '' of _handleMessage).
CallSiteLogDatas ==
    { [type |-> "log-info", callLine |-> "a.js:3:7", argList |-> << <<"a">> >>],
      [type |-> "log-info", callLine |-> "c.js", argList |-> << <<"a">> >>],
      [type |-> "log-info", callLine |-> "", argList |-> << <<"a">> >>] }

\* the line ranges the line-filter dialog can return: _getModalRanges keeps the
\* rows with start <= end
LineRanges ==
    { <<>>, << <<1, 1>> >>, << <<2, 3>> >>, << <<1, 2>>, <<3, 3>> >> }

\* A frame whose entry is taller than the list.
TallLogData ==
    [type |-> "log-warn", callLine |-> "a.js:1", argList |-> << <<"a">>, <<"a">>, <<"a">> >>]

\* arguments of the trial execution: fn(new Date(), 'info', 'test:1', [], {})
TrialLog == [id |-> 0, type |-> "info", callLine |-> "test:1", argList |-> <<>>]

\* Source texts a user can save as a check.
\*   "isError"      return type === 'error';
\*   "throwOnError" if (type === 'error') throw new Error(); return true;
\*   "throwOnInfo"  if (type === 'info') throw new Error(); return true;
\*   "syntax"       text that new Function() rejects
Codes == {"isError", "throwOnError", "throwOnInfo", "syntax"}

\* new Function(...) throws a SyntaxError
Compiles(code) == code # "syntax"

\* check.fn(date, type, callLine, argList, boundDatas): "true", "false" or "throw"
CallFn(code, log) ==
    CASE code = "isError" -> IF log.type = "error" THEN "true" ELSE "false"
      [] code = "throwOnError" -> IF log.type = "error" THEN "throw" ELSE "true"
      [] code = "throwOnInfo" -> IF log.type = "info" THEN "throw" ELSE "true"

Names == {""}
\* name || 'Unnamed Check'
NameOrDefault(name) == IF name = "" THEN "Unnamed Check" ELSE name

(***************************************************************************)
(* State.                                                                  *)
(***************************************************************************)
VARIABLES
    \* LoggyLoggerApp
    logs,               \* _logs: the store, oldest first
    logIdCounter,       \* _logIdCounter
    bufferSize,         \* _bufferSize
    logElements,        \* _logElements: ids of the entries that have a display element
    enabledLogLevels,   \* _enabledLogLevels
    selectedFiles,      \* _selectedFiles
    lineFilters,        \* _lineFilters: file -> sequence of <<start, end>>
    \* LogRenderer
    searchFilter,       \* _searchFilter
    isRegexMode,        \* _isRegexMode
    searchRegex,        \* _searchRegex: None or Some(compiled pattern)
    \* ChecksManager
    checks,             \* _checks
    checkIdCounter,     \* _checkIdCounter
    resultCache,        \* _resultCache, keyed by <<log id, check id>>
    checksFilter,       \* _checksFilter, in insertion order
    enabledChecksCache, \* _enabledChecksCache: None or Some(ids of the cached checks)
    autoScroll,         \* _autoScroll
    \* the page
    scrollTop,          \* logsContainer.scrollTop
    scrollPending,      \* a scroll event of logsContainer waits to be dispatched
    indicatorVisible,   \* scrollIndicator and backToLiveBtn carry the class 'visible'
    \* the recording
    isRecording,        \* _recording.isRecording
    recordDatas,        \* _recording.recordDatas
    \* PerformanceMonitor; the sample arrays are kept by their lengths, and no
    \* sample leaves the 60 s window within a behaviour.  The two readings
    \* _lastRenderTime and _lastChecksTime, which reset() leaves alone, are not kept.
    renderTimes,        \* _renderTimes.length
    checksTimes,        \* _checksTimes.length
    logsReceivedTimes,  \* _logsReceivedTimes.length
    logsDisplayedTimes, \* _logsDisplayedTimes.length
    lastRoadtripDelay,  \* _lastRoadtripDelay
    \* WebSocketManager
    ws,                 \* _ws: 0 (null) or a socket
    isConnected,        \* _isConnected
    manualDisconnect,   \* _manualDisconnect
    reconnectAttempts,  \* _reconnectAttempts
    reconnectTimer,     \* _reconnectTimer: 0 (null), a schedule, or -1 (the handle of
                        \* a timeout that has fired)
    pingInterval,       \* _pingInterval is set
    offByUser,          \* disconnect() was called and connect() was not called by the
                        \* user since
    \* browser
    sockets,            \* readyState of the sockets that are not closed yet
    timers,             \* the reconnect schedules whose timeout or interval is live
    \* history
    epoch,              \* number of clear-all operations so far
    cacheEpoch,         \* for each cache row, the epoch of the entry it was computed on
    hist,               \* payloads appended since the last clear-all, oldest first
    capChanged,         \* the capacity was changed after an append since the last clear-all
    last,               \* what the last handler did
    userScroll,         \* what the user did to the scroll position since the last
                        \* scroll event was dispatched
    \* the filter input of the page and its debounce
    filterInput,        \* filterInput.value
    filterDebounceTimer,\* _filterDebounceTimer: 0 (null) or a timeout
    debounceTimers,     \* the pending timeouts of the debounce: the ticks left of each
    sinceInput,         \* ticks since the last input event of filterInput
    \* the server
    serial,             \* number of log frames the server has broadcast
    inbox,              \* for each socket, the frames sent to it and not delivered yet
    ingested,           \* the numbers of the frames given to _addLog, in that order
    \* Node side
    globalConfig,       \* Logger.globalConfig (level and colors)
    loggers,            \* the Logger instances, in the order of construction
    production,         \* LoggyLogger._production
    prodConfig,         \* LoggyLogger._prodConfig
    called              \* the last call of a log method and whether it reached console.log

appVars == <<logs, logIdCounter, bufferSize, logElements>>
levelVars == <<enabledLogLevels, selectedFiles, lineFilters>>
searchVars == <<searchFilter, isRegexMode, searchRegex>>
cmVars == <<checks, checkIdCounter, resultCache, checksFilter, enabledChecksCache, cacheEpoch>>
viewVars == <<autoScroll, scrollTop, scrollPending, indicatorVisible>>
recVars == <<isRecording, recordDatas>>
nodeVars == <<globalConfig, loggers, production, prodConfig, called>>
perfVars == <<renderTimes, checksTimes, logsReceivedTimes, logsDisplayedTimes,
              lastRoadtripDelay>>
wsVars == <<ws, isConnected, manualDisconnect, reconnectAttempts, reconnectTimer,
           pingInterval, offByUser, sockets, timers>>
histVars == <<epoch, hist, capChanged>>
inputVars == <<filterInput, filterDebounceTimer, debounceTimers, sinceInput>>
frameVars == <<serial, inbox, ingested>>
restVars == <<userScroll, inputVars, frameVars>>
dashboardVars == <<appVars, viewVars, recVars, perfVars, levelVars, searchVars, cmVars,
                   wsVars, histVars, last, restVars>>
vars == <<dashboardVars, nodeVars>>

(***************************************************************************)
(* ChecksManager.  The methods are operators on a record cm of the         *)
(* object's fields; each returns the fields after the call and the value   *)
(* returned.  A check is [id, name, code, enabled, killed]; its compiled   *)
(* function fn is always the one compiled from code.  _executionTimes and  *)
(* _lastExecutionTimes only feed the timing display and are left out.      *)
(***************************************************************************)
CM == [checks |-> checks, checkIdCounter |-> checkIdCounter,
       resultCache |-> resultCache, checksFilter |-> checksFilter,
       enabledChecksCache |-> enabledChecksCache, cacheEpoch |-> cacheEpoch]

Restrict(f, keys) == [k \in keys |-> f[k]]

CheckIds(cm) == {cm.checks[i].id : i \in 1..Len(cm.checks)}
\* this._checks.find(c => c.id === id), for a stored id
CheckById(cm, id) == cm.checks[CHOOSE i \in 1..Len(cm.checks) : cm.checks[i].id = id]

\* this._checks.filter(c => c.enabled && !c.killed), as ids
EnabledIds(cm) ==
    LET on == {c \in SeqToSet(cm.checks) : c.enabled /\ ~c.killed}
        kept == FilterSeq(cm.checks, on)
    IN  [i \in 1..Len(kept) |-> kept[i].id]

\* getEnabled(): memoised in _enabledChecksCache; ret is the array returned
getEnabled(cm) ==
    IF cm.enabledChecksCache = None
    THEN [cm |-> [cm EXCEPT !.enabledChecksCache = Some(EnabledIds(cm))], ret |-> EnabledIds(cm)]
    ELSE [cm |-> cm, ret |-> cm.enabledChecksCache[1]]

\* _invalidateEnabledCache()
invalidateEnabledCache(cm) == [cm EXCEPT !.enabledChecksCache = None]

\* _renderChecksFilterContainer(): draws one chip per check of getEnabled()
renderChecksFilterContainer(cm) == getEnabled(cm).cm

\* _notifyChange(): _invalidateEnabledCache(), then the callback the application
\* registered, which redraws the checks list and the filter chips
notifyChange(cm) == renderChecksFilterContainer(invalidateEnabledCache(cm))

\* the validation written with a threshold one millisecond higher
TrialTooSlowLate(t) == t > trialThreshold + 1

\* the validation `if (execTime > 10)` of add and update
TrialTooSlow(t) == t > trialThreshold

\* the capacity test written with >
AtCapacityExclusive(cm) == Len(cm.checks) > maxChecks

\* `if (this._checks.length >= this._maxChecks)` of add
AtCapacity(cm) == Len(cm.checks) >= maxChecks

\* isAtMax(), which disables the add button
isAtMax(cm) == Len(cm.checks) >= maxChecks

\* new Function(...) succeeds and the trial call returns, so that execTime is measured
TrialRuns(code) == Compiles(code) /\ CallFn(code, TrialLog) # "throw"

\* add(name, code) with a trial execution of t ms; ret is the new id, 0 for null
add(cm, name, code, t) ==
    IF AtCapacity(cm) THEN [cm |-> cm, ret |-> 0]
    ELSE IF ~TrialRuns(code) THEN [cm |-> cm, ret |-> 0]
    ELSE IF TrialTooSlow(t) THEN [cm |-> cm, ret |-> 0]
    ELSE LET check == [id |-> cm.checkIdCounter + 1, name |-> NameOrDefault(name),
                       code |-> code, enabled |-> TRUE, killed |-> FALSE]
         IN  [cm |-> notifyChange([cm EXCEPT !.checkIdCounter = cm.checkIdCounter + 1,
                                             !.checks = Append(cm.checks, check)]),
              ret |-> check.id]

\* this._resultCache.forEach(logCache => logCache.delete(id))
DeleteCheckRows(cm, id) ==
    LET keep == {k \in DOMAIN cm.resultCache : k[2] # id}
    IN  [cm EXCEPT !.resultCache = Restrict(cm.resultCache, keep),
                   !.cacheEpoch = Restrict(cm.cacheEpoch, keep)]

\* the fields update() assigns on success
UpdatedCheck(c, name, code) ==
    [c EXCEPT !.name = NameOrDefault(name), !.code = code, !.killed = FALSE]

\* an update that purges the rows of the check before it validates the source
updatePurgingFirst(cm, id, name, code, t) ==
    IF id \notin CheckIds(cm) THEN [cm |-> cm, ret |-> FALSE]
    ELSE IF ~TrialRuns(code) \/ TrialTooSlow(t)
    THEN [cm |-> DeleteCheckRows(cm, id), ret |-> FALSE]
    ELSE LET upd == [cm EXCEPT !.checks = [i \in 1..Len(cm.checks) |->
                                    IF cm.checks[i].id = id
                                    THEN UpdatedCheck(cm.checks[i], name, code)
                                    ELSE cm.checks[i]]]
         IN  [cm |-> notifyChange(DeleteCheckRows(upd, id)), ret |-> TRUE]

\* update(id, name, code) with a trial execution of t ms; ret is the boolean returned
update(cm, id, name, code, t) ==
    IF id \notin CheckIds(cm) THEN [cm |-> cm, ret |-> FALSE]
    ELSE IF ~TrialRuns(code) THEN [cm |-> cm, ret |-> FALSE]
    ELSE IF TrialTooSlow(t) THEN [cm |-> cm, ret |-> FALSE]
    ELSE LET upd == [cm EXCEPT !.checks = [i \in 1..Len(cm.checks) |->
                                    IF cm.checks[i].id = id
                                    THEN UpdatedCheck(cm.checks[i], name, code)
                                    ELSE cm.checks[i]]]
         IN  [cm |-> notifyChange(DeleteCheckRows(upd, id)), ret |-> TRUE]

RemoveFromSeq(s, x) == FilterSeq(s, SeqToSet(s) \ {x})

\* a remove that leaves the cache rows of the check behind
removeKeepRows(cm, id) ==
    IF id \notin CheckIds(cm) THEN cm
    ELSE notifyChange([cm EXCEPT
            !.checks = FilterSeq(cm.checks, {c \in SeqToSet(cm.checks) : c.id # id}),
            !.checksFilter = RemoveFromSeq(cm.checksFilter, id)])

\* remove(id)
remove(cm, id) ==
    IF id \notin CheckIds(cm) THEN cm
    ELSE LET rest == [cm EXCEPT !.checks = FilterSeq(cm.checks, {c \in SeqToSet(cm.checks) : c.id # id}),
                                !.checksFilter = RemoveFromSeq(cm.checksFilter, id)]
         IN  notifyChange(DeleteCheckRows(rest, id))

\* setEnabled(id, enabled)
setEnabled(cm, id, enabled) ==
    IF id \notin CheckIds(cm) THEN cm
    ELSE notifyChange([cm EXCEPT
            !.checks = [i \in 1..Len(cm.checks) |->
                            IF cm.checks[i].id = id
                            THEN [cm.checks[i] EXCEPT !.enabled = enabled]
                            ELSE cm.checks[i]],
            !.checksFilter = IF enabled THEN cm.checksFilter
                             ELSE RemoveFromSeq(cm.checksFilter, id)])

\* disableAll()
disableAll(cm) ==
    notifyChange([cm EXCEPT
        !.checks = [i \in 1..Len(cm.checks) |-> [cm.checks[i] EXCEPT !.enabled = FALSE]],
        !.checksFilter = <<>>])

\* the body of the forEach of enableAll()
EnableUnlessKilled(c) == IF ~c.killed THEN [c EXCEPT !.enabled = TRUE] ELSE c

\* enableAll()
enableAll(cm) ==
    notifyChange([cm EXCEPT
        !.checks = [i \in 1..Len(cm.checks) |-> EnableUnlessKilled(cm.checks[i])]])

\* toggleFilter(id)
toggleFilter(cm, id) ==
    notifyChange([cm EXCEPT
        !.checksFilter = IF id \in SeqToSet(cm.checksFilter)
                         THEN RemoveFromSeq(cm.checksFilter, id)
                         ELSE Append(cm.checksFilter, id)])

\* cleanCache(validLogIds)
cleanCache(cm, validLogIds) ==
    LET keep == {k \in DOMAIN cm.resultCache : k[1] \in validLogIds}
    IN  [cm EXCEPT !.resultCache = Restrict(cm.resultCache, keep),
                   !.cacheEpoch = Restrict(cm.cacheEpoch, keep)]

\* a lookup that never finds a row
CacheMiss(cm, key) == FALSE

\* `this._resultCache.has(log.id) && logCache.has(check.id)` of runCheck
CacheHit(cm, key) == key \in DOMAIN cm.resultCache

\* what runCheck answers for a killed or disabled check
NeutralResult == [result |-> FALSE, time |-> 0]

\* the test without the killed flag
SkippedIfDisabled(check) == ~check.enabled

\* `if (check.killed || !check.enabled)` of runCheck
Skipped(check) == check.killed \/ ~check.enabled

\* `if (execTime > this._killswitchThreshold)` of runCheck
KillswitchFires(t) == t > killswitchThreshold

\* a killswitch that only clears the enabled flag
KillOnlyDisables(cm, id) == setEnabled(cm, id, FALSE)

\* a kill that does not tell the observers
KillWithoutNotify(cm, id) ==
    [cm EXCEPT
        !.checks = [i \in 1..Len(cm.checks) |->
                        IF cm.checks[i].id = id
                        THEN [cm.checks[i] EXCEPT !.killed = TRUE, !.enabled = FALSE]
                        ELSE cm.checks[i]]]

\* a kill that switches every check off
KillAndDisableAll(cm, id) == disableAll(KillWithoutNotify(cm, id))

\* the killswitch: check.killed = true; check.enabled = false; _notifyChange()
Kill(cm, id) ==
    notifyChange([cm EXCEPT
        !.checks = [i \in 1..Len(cm.checks) |->
                        IF cm.checks[i].id = id
                        THEN [cm.checks[i] EXCEPT !.killed = TRUE, !.enabled = FALSE]
                        ELSE cm.checks[i]]])

\* an answer for a killed or disabled check that is cached
skipCheckCaching(cm, key) ==
    [cm EXCEPT !.resultCache = (key :> NeutralResult) @@ cm.resultCache,
               !.cacheEpoch = (key :> epoch) @@ cm.cacheEpoch]

\* `return { result: false, time: 0 }` of runCheck: the registry is left as it is
skipCheck(cm, key) == cm

\* a catch that lets a throwing predicate pass
caughtResultPasses(outcome) == outcome # "false"

\* `try { result = !!check.fn(...) } catch (e) { result = false }` of runCheck
caughtResult(outcome) == outcome = "true"

\* runCheck(check, log) for the stored check id, an execution taking t ms if there
\* is one; ret is the row returned, exec tells whether check.fn was called
runCheck(cm, id, log, t) ==
    LET key == <<log.id, id>>
        check == CheckById(cm, id)
    IN  IF CacheHit(cm, key)
        THEN [cm |-> cm, ret |-> cm.resultCache[key], exec |-> FALSE]
        ELSE IF Skipped(check)
        THEN [cm |-> skipCheck(cm, key), ret |-> NeutralResult, exec |-> FALSE]
        ELSE LET row == [result |-> caughtResult(CallFn(check.code, log)), time |-> t]
                 killed == IF KillswitchFires(t) THEN Kill(cm, id) ELSE cm
             IN  [cm |-> [killed EXCEPT
                            !.resultCache = (key :> row) @@ killed.resultCache,
                            !.cacheEpoch = (key :> epoch) @@ killed.cacheEpoch],
                  ret |-> row, exec |-> TRUE]

(***************************************************************************)
(* Utils: the call-site locator "<file>:<line>".                           *)
(***************************************************************************)
\* getFileFromCallLine: "" stands for null
getFileFromCallLine(callLine) ==
    CASE callLine = "a.js:1" -> "a.js"
      [] callLine = "b.js:2" -> "b.js"
      [] callLine = "a.js:3:7" -> "a.js"
      [] OTHER -> callLine

\* getLineFromCallLine: -1 stands for null
getLineFromCallLine(callLine) ==
    CASE callLine = "a.js:1" -> 1
      [] callLine = "b.js:2" -> 2
      [] callLine = "a.js:3:7" -> 3
      [] OTHER -> -1

\* a test that takes the ends of a range as outside it
isLineInRangesExclusive(line, ranges) ==
    IF Len(ranges) = 0 THEN TRUE
    ELSE \E i \in 1..Len(ranges) : line > ranges[i][1] /\ line < ranges[i][2]

\* isLineInRanges(line, ranges)
isLineInRanges(line, ranges) ==
    IF Len(ranges) = 0 THEN TRUE
    ELSE \E i \in 1..Len(ranges) : line >= ranges[i][1] /\ line <= ranges[i][2]

(***************************************************************************)
(* LogRenderer: the search filter.                                         *)
(***************************************************************************)
\* setSearchFilter(filter, isRegex): the three fields after the call
setSearchFilter(filter, isRegex) ==
    [searchFilter |-> filter, isRegexMode |-> isRegex,
     searchRegex |-> IF isRegex /\ filter # <<>> THEN RegExpCompile(filter) ELSE None]

\* matchesSearch(text) on the renderer fields sf
MatchesSearchOf(sf, text) ==
    IF sf.searchFilter = <<>> THEN TRUE
    ELSE IF sf.isRegexMode /\ sf.searchRegex # None
         THEN RegExpTest(sf.searchRegex[1], text)
         ELSE Includes(ToLowerCase(text), ToLowerCase(sf.searchFilter))

SF == [searchFilter |-> searchFilter, isRegexMode |-> isRegexMode, searchRegex |-> searchRegex]

matchesSearch(text) == MatchesSearchOf(SF, text)

(***************************************************************************)
(* The filter pipeline and the renders of LoggyLoggerApp.  A handler may   *)
(* execute several checks; tau gives the time each execution takes, keyed  *)
(* by <<log id, check id>> (a pair is executed at most once in a handler,  *)
(* since its row is cached by the first execution).                        *)
(***************************************************************************)
LogIds(ls) == {ls[i].id : i \in 1..Len(ls)}

TimeOf(tau, log, id) == IF <<log.id, id>> \in DOMAIN tau THEN tau[<<log.id, id>>] ELSE 0

\* the pairs a handler can execute on the store ls
ExecPairs(cm, ls) ==
    {k \in {<<ls[i].id, c.id>> : i \in 1..Len(ls), c \in SeqToSet(cm.checks)} :
        /\ k \notin DOMAIN cm.resultCache
        /\ ~Skipped(CheckById(cm, k[2]))}

\* the times the executions of one handler can take, drawn from times
TausOf(times, cm, ls) == [ExecPairs(cm, ls) -> times]

Taus(cm, ls) == TausOf(ExecTimes, cm, ls)

\* the pairs executed between the registry states before and after: every
\* execution of runCheck leaves a row
Executed(before, after) == DOMAIN after.resultCache \ DOMAIN before.resultCache

\* performance.now() differences: the time the executions of pairs took in all
RECURSIVE SumTimes(_, _)
SumTimes(tau, pairs) ==
    IF pairs = {} THEN 0
    ELSE Then(CHOOSE k \in pairs : TRUE, LAMBDA k : tau[k] + SumTimes(tau, pairs \ {k}))

\* the loop of passesFilter over _checksFilter from position i
RECURSIVE PassesFilterFrom(_, _, _, _, _)
PassesFilterFrom(cm, enabledChecks, i, log, tau) ==
    IF i > Len(cm.checksFilter) THEN [cm |-> cm, ret |-> TRUE]
    ELSE IF cm.checksFilter[i] \notin SeqToSet(enabledChecks)
         THEN PassesFilterFrom(cm, enabledChecks, i + 1, log, tau)
         ELSE Then(runCheck(cm, cm.checksFilter[i], log, TimeOf(tau, log, cm.checksFilter[i])),
                   LAMBDA r : IF ~r.ret.result THEN [cm |-> r.cm, ret |-> FALSE]
                              ELSE PassesFilterFrom(r.cm, enabledChecks, i + 1, log, tau))

\* ChecksManager.passesFilter(log)
passesFilter(cm, log, tau) ==
    IF Len(cm.checksFilter) = 0 THEN [cm |-> cm, ret |-> TRUE]
    ELSE Then(getEnabled(cm), LAMBDA ge : PassesFilterFrom(ge.cm, ge.ret, 1, log, tau))

\* log.type.toLowerCase() on the level names
LowerType(type) ==
    CASE type = "INFO" -> "info"
      [] type = "ERROR" -> "error"
      [] type = "DEBUG" -> "debug"
      [] OTHER -> type

\* a test that keeps exactly the entries of the levels that are switched off
LevelSwitchedOff(levels, log) == LowerType(log.type) \notin levels

\* `this._enabledLogLevels.has(log.type.toLowerCase())` for the level set levels
LevelEnabled(levels, log) == LowerType(log.type) \in levels

\* the filter state _shouldShowLog reads: _enabledLogLevels, _selectedFiles,
\* _lineFilters and the search filter of LogRenderer
FilterState == [levels |-> enabledLogLevels, files |-> selectedFiles,
                lines |-> lineFilters, search |-> SF]

\* the file stage of _shouldShowLog
FileStageAt(fs, log) ==
    IF fs.files = {} THEN TRUE
    ELSE LET file == getFileFromCallLine(log.callLine)
         IN  IF file = "" \/ file \notin fs.files THEN FALSE
             ELSE IF file \in DOMAIN fs.lines /\ Len(fs.lines[file]) > 0
                  THEN LET line == getLineFromCallLine(log.callLine)
                       IN  ~(line = -1 \/ ~isLineInRanges(line, fs.lines[file]))
                  ELSE TRUE

\* the level, search and file stages of _shouldShowLog under the current filter state
LevelStage(log) == LevelEnabled(enabledLogLevels, log)

SearchStage(log) == matchesSearch(formatArgs(log.argList))

FileStage(log) == FileStageAt(FilterState, log)

\* _shouldShowLog(log) when the filter state is fs
shouldShowLogAt(fs, cm, log, tau) ==
    IF ~LevelEnabled(fs.levels, log) THEN [cm |-> cm, ret |-> FALSE]
    ELSE IF ~MatchesSearchOf(fs.search, formatArgs(log.argList)) THEN [cm |-> cm, ret |-> FALSE]
    ELSE IF ~FileStageAt(fs, log) THEN [cm |-> cm, ret |-> FALSE]
    ELSE passesFilter(cm, log, tau)

\* _shouldShowLog(log)
shouldShowLog(cm, log, tau) == shouldShowLogAt(FilterState, cm, log, tau)

\* this._logs.filter(log => this._shouldShowLog(log))
RECURSIVE FilterLogs(_, _, _, _)
FilterLogs(fs, cm, ls, tau) ==
    IF ls = <<>> THEN [cm |-> cm, ret |-> <<>>]
    ELSE Then(shouldShowLogAt(fs, cm, Head(ls), tau), LAMBDA h :
         Then(FilterLogs(fs, h.cm, Tail(ls), tau), LAMBDA t :
            [cm |-> t.cm, ret |-> IF h.ret THEN <<Head(ls)>> \o t.ret ELSE t.ret]))

\* LogRenderer._renderCheckIcons: runCheck for each check of the array, in order
RECURSIVE renderCheckIcons(_, _, _, _)
renderCheckIcons(cm, enabledChecks, log, tau) ==
    IF enabledChecks = <<>> THEN cm
    ELSE renderCheckIcons(
            runCheck(cm, Head(enabledChecks), log, TimeOf(tau, log, Head(enabledChecks))).cm,
            Tail(enabledChecks), log, tau)

\* filtered.forEach(log => createLogEntry(log, false, enabledChecks))
RECURSIVE RenderEntries(_, _, _, _)
RenderEntries(cm, enabledChecks, ls, tau) ==
    IF ls = <<>> THEN cm
    ELSE RenderEntries(renderCheckIcons(cm, enabledChecks, Head(ls), tau),
                       enabledChecks, Tail(ls), tau)

\* enabledChecks.forEach(check => visibleLogs.forEach(log => runCheck(check, log)))
RECURSIVE HeaderCounts(_, _, _, _)
HeaderCounts(cm, enabledChecks, visibleLogs, tau) ==
    IF enabledChecks = <<>> \/ visibleLogs = <<>> THEN cm
    ELSE HeaderCounts(
            RenderEntries(cm, <<Head(enabledChecks)>>, visibleLogs, tau),
            Tail(enabledChecks), visibleLogs, tau)

\* _updateChecksResultsHeader()
updateChecksResultsHeader(fs, cm, ls, tau) ==
    Then(getEnabled(cm), LAMBDA ge :
        IF Len(ge.ret) = 0 THEN ge.cm
        ELSE Then(FilterLogs(fs, ge.cm, ls, tau), LAMBDA visible :
                HeaderCounts(visible.cm, ge.ret, visible.ret, tau)))

\* _fullRender() when the filter state is fs: the registry afterwards and the ids
\* that got a display element
fullRender(fs, cm, ls, tau) ==
    Then(FilterLogs(fs, cm, ls, tau), LAMBDA filtered :
    Then(getEnabled(filtered.cm), LAMBDA ge :
        [cm |-> updateChecksResultsHeader(fs,
                    RenderEntries(ge.cm, ge.ret, filtered.ret, tau), ls, tau),
         elements |-> LogIds(filtered.ret)]))

(***************************************************************************)
(* LoggyLoggerApp: the store.                                              *)
(***************************************************************************)
\* the loop condition written with >=
OverCapacityInclusive(len, cap) == len >= cap

\* `while (this._logs.length > this._bufferSize)` of _trimBuffer
OverCapacity(len, cap) == len > cap

\* the eviction loop of _trimBuffer: shift() while over capacity
RECURSIVE Evict(_, _)
Evict(ls, cap) == IF OverCapacity(Len(ls), cap) THEN Evict(Tail(ls), cap) ELSE ls

\* the purge at the end of _trimBuffer: cleanCache(ids of the store)
PurgeEvicted(cm, kept) == cleanCache(cm, LogIds(kept))

\* a trim that leaves the display elements of the evicted entries in the list
trimBufferKeepElements(ls, cap, elements, cm) ==
    Then(Evict(ls, cap), LAMBDA kept :
        [logs |-> kept, elements |-> elements, cm |-> PurgeEvicted(cm, kept)])

\* _trimBuffer(): the store, the display elements and the registry afterwards
trimBuffer(ls, cap, elements, cm) ==
    Then(Evict(ls, cap), LAMBDA kept :
        [logs |-> kept,
         elements |-> elements \ (LogIds(ls) \ LogIds(kept)),
         cm |-> PurgeEvicted(cm, kept)])

\* an entry numbered without incrementing the counter
NewLogSameId(counter, logData) ==
    [id |-> counter, type |-> Slice4(logData.type),
     callLine |-> logData.callLine, argList |-> logData.argList]

\* the entry _addLog builds from a frame
NewLog(counter, logData) ==
    [id |-> counter + 1, type |-> Slice4(logData.type),
     callLine |-> logData.callLine, argList |-> logData.argList]

(***************************************************************************)
(* LoggyLoggerApp: the scroll position of the list.  The content of the    *)
(* list is the elements of the displayed entries; the browser keeps        *)
(* scrollTop within 0 .. scrollHeight - clientHeight and queues a scroll   *)
(* event whenever scrollTop changes.                                       *)
(***************************************************************************)
V == [autoScroll |-> autoScroll, scrollTop |-> scrollTop,
      scrollPending |-> scrollPending, indicatorVisible |-> indicatorVisible]

ElementHeight(log) == IF Len(log.argList) > 2 THEN TallRowHeight ELSE ShortRowHeight

\* the height of the elements of the entries of ls that are in elements
RECURSIVE ContentHeight(_, _)
ContentHeight(ls, elements) ==
    IF ls = <<>> THEN 0
    ELSE (IF Head(ls).id \in elements THEN ElementHeight(Head(ls)) ELSE 0)
         + ContentHeight(Tail(ls), elements)

\* container.scrollHeight
scrollHeight(content) == IF content > ClientHeight THEN content ELSE ClientHeight

MaxScrollTop(content) == scrollHeight(content) - ClientHeight

\* _isAtBottom()
isAtBottom(content, top) ==
    scrollHeight(content) - top - ClientHeight < atBottomThreshold

\* container.scrollTop = top for a list of height content
setScrollTop(v, top, content) ==
    [v EXCEPT !.scrollTop = Min(top, MaxScrollTop(content)),
              !.scrollPending = v.scrollPending \/ Min(top, MaxScrollTop(content)) # v.scrollTop]

\* the layout after the content of the list changed
relayout(v, content) == setScrollTop(v, v.scrollTop, content)

\* _updateScrollIndicator()
updateScrollIndicator(v, nlogs) ==
    [v EXCEPT !.indicatorVisible = ~v.autoScroll /\ nlogs > 0]

\* `if (wasAtBottom && this._autoScroll) container.scrollTop = container.scrollHeight`
scrollIfFollowing(v, wasAtBottom, content) ==
    IF wasAtBottom /\ v.autoScroll THEN setScrollTop(v, scrollHeight(content), content)
    ELSE relayout(v, content)

\* the part of _fullRender that concerns the scroll position: the list had the
\* height before and gets the height after
fullRenderView(v, before, after, nlogs) ==
    updateScrollIndicator(
        scrollIfFollowing(v, isAtBottom(before, v.scrollTop), after), nlogs)

(***************************************************************************)
(* WebSocketManager.  The methods are operators on a record w of the       *)
(* object's fields and of the sockets and timers it created.  A socket is  *)
(* "connecting", "open" or "closing" and leaves the record when it is      *)
(* closed; its handlers belong to the manager for as long as it exists.    *)
(* A reconnect schedule is the timeout and the countdown interval that one *)
(* call of _scheduleReconnect arms: [delay, countdown, timeout, interval,  *)
(* elapsed], with elapsed the ticks of the interval so far.  Status and    *)
(* pong callbacks only write to the page.                                  *)
(***************************************************************************)
W == [ws |-> ws, isConnected |-> isConnected, manualDisconnect |-> manualDisconnect,
      reconnectAttempts |-> reconnectAttempts, reconnectTimer |-> reconnectTimer,
      pingInterval |-> pingInterval, sockets |-> sockets, timers |-> timers]

\* sixteenths of a millisecond in a millisecond
PerMs == 16

SocketIds == 1..MaxSockets
TimerIds == 1..MaxTimers

\* the sockets whose handlers can still see an open or a message
Alive(w) == {s \in DOMAIN w.sockets : w.sockets[s] \in {"connecting", "open"}}

\* new WebSocket(wsUrl) / setTimeout: the object created gets the first free name
FreshIn(ids, used) == CHOOSE i \in ids \ used : \A j \in ids \ used : i <= j

\* a guard that is never taken: connect() always opens a socket
NeverConnected(w) == FALSE

\* `if (this._ws && this._ws.readyState === WebSocket.OPEN) return;` of connect()
AlreadyConnected(w) == w.ws # 0 /\ w.sockets[w.ws] = "open"

\* connect()
connect(w) ==
    IF AlreadyConnected(w) THEN w
    ELSE Then(FreshIn(SocketIds, DOMAIN w.sockets), LAMBDA s :
            [w EXCEPT !.ws = s, !.sockets = (s :> "connecting") @@ w.sockets])

\* the schedules that still have a live timeout or a live interval
Sweep(ts) == Restrict(ts, {t \in DOMAIN ts : ts[t].timeout \/ ts[t].interval})

\* clearTimeout(handle)
clearTimeout(ts, handle) ==
    IF handle \in DOMAIN ts THEN Sweep([ts EXCEPT ![handle].timeout = FALSE]) ELSE ts

\* a clearTimeout that also stops the countdown interval of the schedule
clearTimeoutAndCountdown(ts, handle) == Restrict(ts, DOMAIN ts \ {handle})

\* _stopPing()
stopPing(w) == [w EXCEPT !.pingInterval = FALSE]

\* _startPing()
startPing(w) == [stopPing(w) EXCEPT !.pingInterval = TRUE]

\* disconnect()
disconnect(w) ==
    Then([stopPing(w) EXCEPT !.manualDisconnect = TRUE], LAMBDA w1 :
    Then(IF w1.reconnectTimer # 0
         THEN [w1 EXCEPT !.timers = clearTimeout(w1.timers, w1.reconnectTimer),
                         !.reconnectTimer = 0]
         ELSE w1, LAMBDA w2 :
         IF w2.ws # 0
         THEN [w2 EXCEPT !.sockets = [w2.sockets EXCEPT ![w2.ws] = "closing"], !.ws = 0]
         ELSE w2))

\* a delay that doubles with every attempt
getReconnectDelayDoubling(k) ==
    IF k > 4 THEN maxReconnectDelay * PerMs
    ELSE Min(baseReconnectDelay * PerMs * 2^k, maxReconnectDelay * PerMs)

\* _getReconnectDelay() when _reconnectAttempts is k, in sixteenths of a millisecond:
\* Math.min(base * Math.pow(1.5, k), max)
\* x * Math.pow(1.5, k), multiplied out one factor at a time and no further
\* than the first product above the maximum, which Math.min discards
RECURSIVE TimesPow15(_, _)
TimesPow15(x, k) ==
    IF k = 0 \/ x > maxReconnectDelay * PerMs THEN x
    ELSE TimesPow15((x * 3) \div 2, k - 1)

getReconnectDelay(k) ==
    Min(TimesPow15(baseReconnectDelay * PerMs, k), maxReconnectDelay * PerMs)

\* Math.ceil(delay / 1000)
CeilSeconds(delay) == (delay + countdownPeriod * PerMs - 1) \div (countdownPeriod * PerMs)

\* _scheduleReconnect(): the first countdown update is written at once
scheduleReconnect(w) ==
    Then(FreshIn(TimerIds, DOMAIN w.timers), LAMBDA t :
        [w EXCEPT !.timers = (t :> [delay |-> getReconnectDelay(w.reconnectAttempts),
                                     countdown |-> CeilSeconds(getReconnectDelay(w.reconnectAttempts)),
                                     timeout |-> TRUE, interval |-> TRUE, elapsed |-> 0])
                              @@ w.timers,
                  !.reconnectTimer = t])

\* this._ws.onopen of the socket s
onopen(w, s) ==
    startPing([w EXCEPT !.sockets = [w.sockets EXCEPT ![s] = "open"],
                        !.isConnected = TRUE, !.manualDisconnect = FALSE,
                        !.reconnectAttempts = 0])

\* this._ws.onclose of the socket s
onclose(w, s) ==
    Then(stopPing([w EXCEPT !.sockets = Restrict(w.sockets, DOMAIN w.sockets \ {s}),
                            !.isConnected = FALSE, !.ws = 0]), LAMBDA w1 :
        IF ~w1.manualDisconnect THEN scheduleReconnect(w1) ELSE w1)

\* the callback of the timeout of schedule t: clearInterval(countdownInterval);
\* this._reconnectAttempts++; this.connect().  The handle kept in _reconnectTimer
\* is not reset.
reconnectTimeout(w, t) ==
    connect([w EXCEPT !.timers = Restrict(w.timers, DOMAIN w.timers \ {t}),
                      !.reconnectTimer = IF w.reconnectTimer = t THEN -1 ELSE w.reconnectTimer,
                      !.reconnectAttempts = w.reconnectAttempts + 1])

\* the callback of the countdown interval of schedule t
countdownTick(w, t) ==
    [w EXCEPT !.timers = Sweep([w.timers EXCEPT
                ![t].countdown = w.timers[t].countdown - 1,
                ![t].elapsed = w.timers[t].elapsed + 1,
                ![t].interval = w.timers[t].countdown - 1 > 0])]

\* the next tick of the interval of schedule sch is due no later than its timeout
TickDue(sch) == (sch.elapsed + 1) * countdownPeriod * PerMs <= sch.delay

\* the timeout of schedule sch is due no later than the next tick of its interval
TimeoutDue(sch) == sch.delay <= (sch.elapsed + 1) * countdownPeriod * PerMs

(***************************************************************************)
(* Node side: Logger and LoggyLogger.createLogger.  A configuration object *)
(* is a function from the names of the keys it has to their values; of the *)
(* keys of a logger configuration, level and colors are kept.  Every       *)
(* logger is constructed with a configuration object of its own.           *)
(***************************************************************************)
\* LEVELS (the values of LOG_LEVEL, under the keys of AVAILABLE_LEVELS)
LEVELS ==
    [DEFAULT |-> 60, fatal |-> 10, error |-> 20, warn |-> 30, success |-> 40, info |-> 50,
     log |-> 60, debug |-> 70, verbose |-> 80, silly |-> 90]

\* the log methods of Logger and of the interface createLogger returns
Methods ==
    {"fatal", "error", "warn", "success", "info", "log", "debug", "verbose", "silly"}

\* `const logMethods` of createLogger
logMethods == {"fatal", "error", "warn", "success", "info", "log", "debug", "verbose"}

\* the levels given to setLevel and to the constructors
Thresholds == {10, 55, 90}

\* the configuration objects given to the constructors and to conf.set
Configs == {<<>>, "colors" :> FALSE} \cup {"level" :> l : l \in Thresholds}

\* the objects given to enableProduction: none, and two with `logs`
ProductionConfigs ==
    {<<>>, "logs" :> (("info" :> TRUE) @@ ("warn" :> TRUE)), "logs" :> ("error" :> FALSE)}

NoCall == [logger |-> 0, method |-> "none", wrote |-> FALSE]

\* { ...a, ...b }
Spread(a, b) == b @@ a

\* a gate that lets a method through only above its level
passesLevelStrict(level, method) == level > LEVELS[method]

\* `this.localConfig.level >= LEVELS[...]` of silly .. fatal
passesLevel(level, method) == level >= LEVELS[method]

\* get localConfig()
localConfig(logger) ==
    IF logger.useGlobal THEN globalConfig ELSE Spread(globalConfig, logger.overrides)

\* the methods that createLogger replaces by noop
disabledMethods(prod, config) ==
    IF ~prod THEN {}
    ELSE {method \in logMethods :
            ~(IF "logs" \in DOMAIN config /\ method \in DOMAIN config["logs"]
              THEN config["logs"][method]
              ELSE method \in {"fatal", "error"})}

\* new Logger(config, useGlobalConfig)
NewLogger(config, useGlobalConfig) ==
    /\ loggers' = Append(loggers, [useGlobal |-> useGlobalConfig,
                                   overrides |-> IF useGlobalConfig THEN <<>> ELSE config,
                                   public |-> FALSE, noops |-> {}, defaults |-> FALSE,
                                   boundFrom |-> 0])
    /\ UNCHANGED <<globalConfig, production, prodConfig, called, dashboardVars>>

\* LoggyLogger.createLogger(config): the caller gets the public interface only
CreateLogger(config) ==
    /\ loggers' = Append(loggers, [useGlobal |-> FALSE, overrides |-> config,
                                   public |-> TRUE,
                                   noops |-> disabledMethods(production, prodConfig),
                                   defaults |-> production /\ "logs" \notin DOMAIN prodConfig,
                                   boundFrom |-> 0])
    /\ UNCHANGED <<globalConfig, production, prodConfig, called, dashboardVars>>

\* bind(extraBoundDatas) of the interface i: createBoundInterface builds a new
\* interface on the Logger of i, whose _xBound methods pass the same level
\* gate; boundFrom is the interface bind was called on
Bind(i) ==
    /\ loggers[i].public
    /\ loggers' = Append(loggers, [loggers[i] EXCEPT
                                      !.noops = disabledMethods(production, prodConfig),
                                      !.defaults = production /\ "logs" \notin DOMAIN prodConfig,
                                      !.boundFrom = i])
    /\ UNCHANGED <<globalConfig, production, prodConfig, called, dashboardVars>>

\* Logger.conf.setLevel(l), LoggyLogger.setLevel(l)
ConfSetLevel(l) ==
    /\ globalConfig' = [globalConfig EXCEPT !.level = l]
    /\ UNCHANGED <<loggers, production, prodConfig, called, dashboardVars>>

\* Logger.conf.set(c)
ConfSet(c) ==
    /\ globalConfig' = Spread(globalConfig, c)
    /\ UNCHANGED <<loggers, production, prodConfig, called, dashboardVars>>

\* logger.config.setLevel(l) on the Logger i
ConfigSetLevel(i, l) ==
    /\ ~loggers[i].public
    /\ loggers' = [loggers EXCEPT ![i].overrides =
                       IF loggers[i].useGlobal THEN @ ELSE Spread(@, "level" :> l)]
    /\ UNCHANGED <<globalConfig, production, prodConfig, called, dashboardVars>>

\* logger.clearConfig() on the Logger i
ClearConfig(i) ==
    /\ ~loggers[i].public
    /\ loggers' = [loggers EXCEPT ![i].overrides = <<>>]
    /\ UNCHANGED <<globalConfig, production, prodConfig, called, dashboardVars>>

\* LoggyLogger.enableProduction(config), without settings and dashboard
EnableProduction(config) ==
    /\ production' = TRUE
    /\ prodConfig' = Spread(prodConfig, config)
    /\ globalConfig' = Spread(globalConfig, "colors" :> FALSE)
    /\ UNCHANGED <<loggers, called, dashboardVars>>

\* LoggyLogger.disableProduction()
DisableProduction ==
    /\ production' = FALSE
    /\ UNCHANGED <<globalConfig, loggers, prodConfig, called, dashboardVars>>

\* a call of a log method of the logger i: of the Logger, or of the public
\* interface, where it is noop or calls the method of the Logger.  _log ends
\* in console.log whatever the arguments are.
CallMethod(i, method) ==
    /\ called' = [logger |-> i, method |-> method,
                  wrote |-> /\ method \notin loggers[i].noops
                            /\ passesLevel(localConfig(loggers[i]).level, method)]
    /\ UNCHANGED <<globalConfig, loggers, production, prodConfig, dashboardVars>>

(***************************************************************************)
(* Initial state: the objects as their constructors and init() leave them  *)
(* (init() draws the filter chips, which fills _enabledChecksCache).       *)
(***************************************************************************)
\* what the last handler did: the registry call it made (op), the check id it
\* concerned, whether the call succeeded, and the trial time it measured (0 if none)
NoLast == [op |-> "none", id |-> 0, ok |-> FALSE, t |-> 0]

Measured(ran, t) == IF ran THEN t ELSE 0

Init ==
    /\ logs = <<>>
    /\ logIdCounter = 0
    /\ bufferSize = BUFFER_PRESETS[MaxBuffer]
    /\ logElements = {}
    /\ enabledLogLevels = DefaultLogLevels
    /\ selectedFiles = {}
    /\ lineFilters = <<>>
    /\ searchFilter = <<>>
    /\ isRegexMode = FALSE
    /\ searchRegex = None
    /\ checks = <<>>
    /\ checkIdCounter = 0
    /\ resultCache = <<>>
    /\ checksFilter = <<>>
    /\ enabledChecksCache = Some(<<>>)
    /\ autoScroll = TRUE
    /\ scrollTop = 0
    /\ scrollPending = FALSE
    /\ indicatorVisible = FALSE
    /\ userScroll = "none"
    /\ filterInput = <<>>
    /\ filterDebounceTimer = 0
    /\ debounceTimers = <<>>
    /\ sinceInput = DebounceSteps + 1
    /\ serial = 0
    /\ inbox = <<>>
    /\ ingested = <<>>
    /\ globalConfig = [level |-> LEVELS["DEFAULT"], colors |-> TRUE]
    /\ loggers = <<>>
    /\ production = FALSE
    /\ prodConfig = <<>>
    /\ called = NoCall
    /\ isRecording = FALSE
    /\ recordDatas = <<>>
    /\ renderTimes = 0
    /\ checksTimes = 0
    /\ logsReceivedTimes = 0
    /\ logsDisplayedTimes = 0
    /\ lastRoadtripDelay = 0
    /\ ws = 0
    /\ isConnected = FALSE
    /\ manualDisconnect = FALSE
    /\ reconnectAttempts = 0
    /\ reconnectTimer = 0
    /\ pingInterval = FALSE
    /\ offByUser = FALSE
    /\ sockets = <<>>
    /\ timers = <<>>
    /\ epoch = 0
    /\ cacheEpoch = <<>>
    /\ hist = <<>>
    /\ capChanged = FALSE
    /\ last = NoLast

SetCM(cm) ==
    /\ checks' = cm.checks
    /\ checkIdCounter' = cm.checkIdCounter
    /\ resultCache' = cm.resultCache
    /\ checksFilter' = cm.checksFilter
    /\ enabledChecksCache' = cm.enabledChecksCache
    /\ cacheEpoch' = cm.cacheEpoch

SetView(v) ==
    /\ autoScroll' = v.autoScroll
    /\ scrollTop' = v.scrollTop
    /\ scrollPending' = v.scrollPending
    /\ indicatorVisible' = v.indicatorVisible

SetWS(w) ==
    /\ ws' = w.ws
    /\ isConnected' = w.isConnected
    /\ manualDisconnect' = w.manualDisconnect
    /\ reconnectAttempts' = w.reconnectAttempts
    /\ reconnectTimer' = w.reconnectTimer
    /\ pingInterval' = w.pingInterval
    /\ sockets' = w.sockets
    /\ timers' = w.timers

(***************************************************************************)
(* Event handlers.                                                         *)
(***************************************************************************)
\* getEnabled(), then createLogEntry(log, true, enabledChecks)
DrawEntry(cm, log, tau) ==
    Then(getEnabled(cm), LAMBDA ge : renderCheckIcons(ge.cm, ge.ret, log, tau))

\* the first test takes the time of every execution of the handler
OverloadOfHandler(total, checksTime) == total > overloadThreshold

\* `if (checksTime > 1000)` of _addLog, checksTime being the time the call of
\* _updateChecksResultsHeader took
Overload(total, checksTime) == checksTime > overloadThreshold

\* _addLog(logData), the executions taking times drawn from times.  An _addLog
\* whose executions took more than overloadThreshold in all records it in last,
\* with whether it disconnected.
\* PerformanceMonitor._addSample on an array of n samples: push, then shift
\* while there are more than _maxSamples
addSample(n) == Min(n + 1, maxSamples)

\* PerformanceMonitor.reset()
PerfReset ==
    /\ renderTimes' = 0
    /\ checksTimes' = 0
    /\ logsReceivedTimes' = 0
    /\ logsDisplayedTimes' = 0
    /\ lastRoadtripDelay' = 0

addLog(logData, times) ==
    /\ \E log \in {NewLog(logIdCounter, logData)} :
       \E trimmed \in {trimBuffer(Append(logs, log), bufferSize, logElements, CM)} :
       \E tau \in TausOf(times, trimmed.cm, trimmed.logs) :
       \E show \in {shouldShowLog(trimmed.cm, log, tau)} :
       \E drawn \in {IF show.ret THEN DrawEntry(show.cm, log, tau) ELSE show.cm} :
       \E cm \in {updateChecksResultsHeader(FilterState, drawn, trimmed.logs, tau)} :
       \E total \in {SumTimes(tau, Executed(trimmed.cm, cm))} :
       \E checksTime \in {SumTimes(tau, Executed(drawn, cm))} :
          /\ logs' = trimmed.logs
          /\ logIdCounter' = log.id
          /\ logElements' = IF show.ret THEN trimmed.elements \cup {log.id}
                            ELSE trimmed.elements
          /\ \E v \in {relayout(V, ContentHeight(trimmed.logs, trimmed.elements))} :
                SetView(updateScrollIndicator(
                    IF show.ret
                    THEN scrollIfFollowing(v,
                            isAtBottom(ContentHeight(trimmed.logs, trimmed.elements), v.scrollTop),
                            ContentHeight(trimmed.logs, trimmed.elements \cup {log.id}))
                    ELSE v,
                    Len(trimmed.logs)))
          /\ recordDatas' = IF show.ret /\ isRecording THEN Append(recordDatas, logData)
                            ELSE recordDatas
          /\ logsReceivedTimes' = logsReceivedTimes + 1
          /\ logsDisplayedTimes' = IF show.ret THEN logsDisplayedTimes + 1
                                   ELSE logsDisplayedTimes
          /\ renderTimes' = addSample(renderTimes)
          /\ checksTimes' = addSample(checksTimes)
          /\ SetCM(cm)
          /\ IF Overload(total, checksTime)
             THEN SetWS(disconnect(W)) /\ offByUser' = TRUE
             ELSE UNCHANGED wsVars
          /\ last' = IF total > overloadThreshold
                     THEN [op |-> "overload", id |-> log.id,
                           ok |-> Overload(total, checksTime), t |-> total]
                     ELSE NoLast
    /\ hist' = Append(hist, logData)
    /\ UNCHANGED <<userScroll, inputVars, nodeVars, isRecording, lastRoadtripDelay, bufferSize, levelVars, searchVars,
                   epoch, capChanged>>

\* JSON.parse(event.data): the value, or None when it throws
JSONParse(frame) == IF frame.json THEN Some(frame.data) ELSE None

\* a parser that reads every text as a log event
JSONParseAnything(frame) ==
    IF frame.json THEN Some(frame.data)
    ELSE Some(CHOOSE d \in LogDatas : d.type = "log-info")

\* logTypes of _handleMessage
logTypes == {"log-silly", "log-verbose", "log-debug", "log-log", "log-info",
             "log-success", "log-warn", "log-error", "log-fatal"}

\* now - data.timestamp of the pong of the model, in ms
PongDelay == 7

\* what a socket can deliver: text that is no JSON, a pong, an event of an
\* unknown type, and the log events
Frames ==
    {[json |-> FALSE, data |-> <<>>],
     [json |-> TRUE, data |-> [type |-> "pong", delay |-> PongDelay]],
     [json |-> TRUE, data |-> [type |-> "hello"]]}
    \cup {[json |-> TRUE, data |-> d] : d \in LogDatas}

\* a handler that gives up the connection when a frame cannot be parsed
ParseErrorCloses(s) ==
    /\ last' = [op |-> "parse error", id |-> s, ok |-> FALSE, t |-> 0]
    /\ SetWS(disconnect(W))
    /\ UNCHANGED <<userScroll, inputVars, nodeVars, perfVars, recVars, offByUser, viewVars, appVars, levelVars, searchVars, cmVars, histVars>>

\* the outer catch of onmessage: console.error('JSON parsing error:', e)
ParseErrorCaught(s) ==
    /\ last' = [op |-> "parse error", id |-> s, ok |-> FALSE, t |-> 0]
    /\ UNCHANGED <<userScroll, inputVars, nodeVars, perfVars, recVars, viewVars, appVars, levelVars, searchVars, cmVars, wsVars, histVars>>

\* _handleMessage(data) for a pong or an event of an unknown type
OtherMessage(s, data) ==
    /\ last' = [op |-> data.type, id |-> s, ok |-> FALSE, t |-> 0]
    /\ lastRoadtripDelay' = IF data.type = "pong" THEN data.delay ELSE lastRoadtripDelay
    /\ UNCHANGED <<renderTimes, checksTimes, logsReceivedTimes, logsDisplayedTimes>>
    /\ UNCHANGED <<userScroll, inputVars, nodeVars, recVars, viewVars, appVars, levelVars, searchVars, cmVars, wsVars,
                   histVars>>

\* this._ws.onmessage of the open socket s: JSON.parse, _handleMessage, and for a
\* log event the onMessage callback _addLog.  What becomes of the frames in
\* flight is left to the action that delivers the frame.
OnMessage(s, frame, times) ==
    /\ s \in DOMAIN sockets /\ sockets[s] = "open"
    /\ \E data \in {JSONParse(frame)} :
          IF data = None THEN ParseErrorCaught(s)
          ELSE IF data[1].type \in logTypes
          THEN addLog([type |-> data[1].type, callLine |-> data[1].callLine,
                       argList |-> data[1].argList], times)
          ELSE OtherMessage(s, data[1])

\* a log event arrives on an open socket
AddLog(logData) ==
    /\ \E s \in DOMAIN sockets : OnMessage(s, [json |-> TRUE, data |-> logData], ExecTimes)
    /\ UNCHANGED frameVars

\* the sockets the server holds as OPEN clients
OpenSockets == {s \in DOMAIN sockets : sockets[s] = "open"}

\* server: broadcastLog(type, callLine, date, argList), which sends the frame
\* to every client that is OPEN (sendDataToClients)
broadcastLog(logData) ==
    /\ serial' = serial + 1
    /\ inbox' = [s \in DOMAIN inbox \cup OpenSockets |->
                    IF s \in OpenSockets
                    THEN Append(IF s \in DOMAIN inbox THEN inbox[s] ELSE <<>>,
                                [serial |-> serial + 1, data |-> logData])
                    ELSE inbox[s]]
    /\ UNCHANGED <<ingested, userScroll, inputVars, nodeVars, appVars, viewVars, recVars, perfVars,
                   levelVars, searchVars, cmVars, wsVars, histVars, last>>

\* the open socket s delivers the oldest frame the server sent to it
Deliver(s) ==
    /\ s \in DOMAIN inbox /\ inbox[s] # <<>>
    /\ OnMessage(s, [json |-> TRUE, data |-> Head(inbox[s]).data], ExecTimes)
    /\ inbox' = [inbox EXCEPT ![s] = Tail(@)]
    /\ ingested' = Append(ingested, Head(inbox[s]).serial)
    /\ serial' = serial

\* connectBtn, and the timeout of init(): connect()
Connect ==
    /\ SetWS(connect(W))
    /\ offByUser' = FALSE
    /\ last' = [op |-> "connect", id |-> connect(W).ws, ok |-> ~AlreadyConnected(W), t |-> 0]
    /\ UNCHANGED <<restVars, nodeVars, perfVars, recVars, viewVars, appVars, levelVars, searchVars, cmVars, histVars>>

\* disconnectBtn: disconnect()
Disconnect ==
    /\ SetWS(disconnect(W))
    /\ offByUser' = TRUE
    /\ last' = [op |-> "disconnect", id |-> ws, ok |-> TRUE, t |-> 0]
    /\ UNCHANGED <<restVars, nodeVars, perfVars, recVars, viewVars, appVars, levelVars, searchVars, cmVars, histVars>>

\* the connection of socket s is established
SocketOpen(s) ==
    /\ s \in DOMAIN sockets /\ sockets[s] = "connecting"
    /\ SetWS(onopen(W, s))
    /\ last' = [op |-> "open", id |-> s, ok |-> TRUE, t |-> 0]
    /\ UNCHANGED <<restVars, nodeVars, perfVars, recVars, offByUser, viewVars, appVars, levelVars, searchVars, cmVars, histVars>>

\* socket s is closed: it failed to connect, the connection dropped, or the close
\* that disconnect() started is done.  last tells whether a reconnect was
\* scheduled and with which delay.
SocketClose(s) ==
    /\ s \in DOMAIN sockets
    /\ SetWS(onclose(W, s))
    /\ last' = [op |-> "close", id |-> s, ok |-> ~manualDisconnect,
                t |-> IF manualDisconnect THEN 0 ELSE getReconnectDelay(reconnectAttempts)]
    /\ inbox' = Restrict(inbox, DOMAIN inbox \ {s})
    /\ UNCHANGED <<userScroll, inputVars, serial, ingested, nodeVars, perfVars, recVars, offByUser, viewVars, appVars, levelVars, searchVars, cmVars, histVars>>

\* the timeout of schedule t fires, after the ticks of its interval that are due
\* earlier
ReconnectTimeout(t) ==
    /\ t \in DOMAIN timers /\ timers[t].timeout /\ TimeoutDue(timers[t])
    /\ SetWS(reconnectTimeout(W, t))
    /\ last' = [op |-> "reconnect", id |-> t, ok |-> ~AlreadyConnected(W), t |-> timers[t].delay]
    /\ UNCHANGED <<restVars, nodeVars, perfVars, recVars, offByUser, viewVars, appVars, levelVars, searchVars, cmVars, histVars>>

\* the countdown interval of schedule t ticks; while the timeout is pending, only
\* the ticks due no later than it.  last.ok tells whether a countdown update was
\* written.
CountdownTick(t) ==
    /\ t \in DOMAIN timers /\ timers[t].interval
    /\ timers[t].timeout => TickDue(timers[t])
    /\ SetWS(countdownTick(W, t))
    /\ last' = [op |-> "countdown", id |-> t, ok |-> timers[t].countdown - 1 > 0,
                t |-> timers[t].countdown - 1]
    /\ UNCHANGED <<restVars, nodeVars, perfVars, recVars, offByUser, viewVars, appVars, levelVars, searchVars, cmVars, histVars>>

\* the 'input' handler of bufferSlider
SetBufferSize(index) ==
    /\ \E trimmed \in {trimBuffer(logs, BUFFER_PRESETS[index], logElements, CM)} :
           /\ bufferSize' = BUFFER_PRESETS[index]
           /\ logs' = trimmed.logs
           /\ logElements' = trimmed.elements
           /\ SetView(relayout(V, ContentHeight(trimmed.logs, trimmed.elements)))
           /\ SetCM(trimmed.cm)
           /\ last' = [op |-> "capacity", id |-> Len(logs) - Len(trimmed.logs),
                       ok |-> logElements \ LogIds(trimmed.logs) # {}, t |-> Len(logs)]
    /\ capChanged' = (capChanged \/ hist # <<>>)
    /\ UNCHANGED <<restVars, nodeVars, perfVars, recVars, wsVars, logIdCounter, levelVars, searchVars, epoch, hist>>

\* clearBtn -> _clearLogs()
\* a clear-all that leaves the id counter alone
clearStoreKeepCounter(counter) == [logs |-> <<>>, logIdCounter |-> counter]

\* `this._logs = []; ... this._logIdCounter = 0;` of _clearLogs
clearStore(counter) == [logs |-> <<>>, logIdCounter |-> 0]

\* clearBtn: _clearLogs(), which ends in _fullRender
ClearLogs ==
    /\ logs' = clearStore(logIdCounter).logs
    /\ logIdCounter' = clearStore(logIdCounter).logIdCounter
    /\ PerfReset
    /\ \E r \in {fullRender(FilterState, CM, <<>>, <<>>)} :
           /\ logElements' = r.elements
           /\ SetView(fullRenderView(V, ContentHeight(logs, logElements), 0, 0))
           /\ SetCM(r.cm)
    /\ epoch' = epoch + 1
    /\ hist' = <<>>
    /\ capChanged' = FALSE
    /\ last' = [op |-> "clear", id |-> logIdCounter, ok |-> logElements # {},
                t |-> logsReceivedTimes]
    /\ UNCHANGED <<restVars, nodeVars, recVars, wsVars, bufferSize, levelVars, searchVars>>

\* a render after a change of the registry to cm
Rerender(cm) ==
    \E tau \in Taus(cm, logs) :
    \E r \in {fullRender(FilterState, cm, logs, tau)} :
        /\ logElements' = r.elements
        /\ SetView(fullRenderView(V, ContentHeight(logs, logElements),
                                  ContentHeight(logs, r.elements), Len(logs)))
        /\ SetCM(r.cm)

\* saveCheckBtn -> _saveCheck() while creating; addCheckBtn, which opens the
\* dialog, is disabled while isAtMax()
SaveNewCheck(name, code, t) ==
    /\ ~isAtMax(CM)
    /\ \E r \in {add(CM, name, code, t)} :
           /\ IF r.ret # 0 THEN Rerender(r.cm)
              ELSE SetCM(r.cm) /\ UNCHANGED <<logElements, viewVars>>
           /\ last' = [op |-> "add", id |-> r.ret, ok |-> r.ret # 0,
                       t |-> Measured(TrialRuns(code), t)]
    /\ UNCHANGED <<restVars, nodeVars, perfVars, recVars, wsVars, logs, logIdCounter, bufferSize, levelVars, searchVars, histVars>>

\* saveCheckBtn -> _saveCheck() while editing check id
SaveEditedCheck(id, name, code, t) ==
    /\ \E r \in {update(CM, id, name, code, t)} :
           /\ IF r.ret THEN Rerender(r.cm)
              ELSE SetCM(r.cm) /\ UNCHANGED <<logElements, viewVars>>
           /\ last' = [op |-> "update", id |-> id, ok |-> r.ret,
                       t |-> Measured(TrialRuns(code), t)]
    /\ UNCHANGED <<restVars, nodeVars, perfVars, recVars, wsVars, logs, logIdCounter, bufferSize, levelVars, searchVars, histVars>>

\* the checkbox of a check, disabled for a killed check: setEnabled, then _fullRender
ChangeCheckbox(id, enabled) ==
    /\ ~CheckById(CM, id).killed
    /\ \E cm \in {setEnabled(CM, id, enabled)} : Rerender(cm)
    /\ last' = NoLast
    /\ UNCHANGED <<restVars, nodeVars, perfVars, recVars, wsVars, logs, logIdCounter, bufferSize, levelVars, searchVars, histVars>>

\* the X button of a check: remove, then _fullRender
DeleteCheck(id) ==
    /\ \E cm \in {remove(CM, id)} : Rerender(cm)
    /\ last' = NoLast
    /\ UNCHANGED <<restVars, nodeVars, perfVars, recVars, wsVars, logs, logIdCounter, bufferSize, levelVars, searchVars, histVars>>

\* disableAllChecksBtn: disableAll, then _fullRender
DisableAllChecks ==
    /\ \E cm \in {disableAll(CM)} : Rerender(cm)
    /\ last' = NoLast
    /\ UNCHANGED <<restVars, nodeVars, perfVars, recVars, wsVars, logs, logIdCounter, bufferSize, levelVars, searchVars, histVars>>

\* a chip of the checks filter, drawn for the checks of getEnabled():
\* toggleFilter, then _fullRender
ClickFilterChip(id) ==
    /\ id \in SeqToSet(getEnabled(CM).ret)
    /\ \E cm \in {toggleFilter(CM, id)} : Rerender(cm)
    /\ last' = NoLast
    /\ UNCHANGED <<restVars, nodeVars, perfVars, recVars, wsVars, logs, logIdCounter, bufferSize, levelVars, searchVars, histVars>>

\* a click on a displayed entry: _openLogDetail -> createDetailContent
OpenLogDetail(i) ==
    /\ logs[i].id \in logElements
    /\ \E tau \in Taus(CM, <<logs[i]>>) :
       \E cm \in {DrawEntry(CM, logs[i], tau)} : SetCM(cm)
    /\ last' = NoLast
    /\ UNCHANGED <<restVars, nodeVars, perfVars, recVars, wsVars, viewVars, appVars, levelVars, searchVars, histVars>>

\* Calls of the exported window.ChecksManager from outside the handlers.
\* last tells when the call enables a check right after runCheck answered
\* for it without executing it.
CallSetEnabled(id, enabled) ==
    /\ SetCM(setEnabled(CM, id, enabled))
    /\ last' = IF enabled /\ last.op = "runCheck" /\ last.id[2] = id /\ last.t = 0
               THEN [last EXCEPT !.op = "enable"]
               ELSE NoLast
    /\ UNCHANGED <<restVars, nodeVars, perfVars, recVars, wsVars, viewVars, appVars, levelVars, searchVars, histVars>>

CallEnableAll ==
    /\ SetCM(enableAll(CM))
    /\ last' = NoLast
    /\ UNCHANGED <<restVars, nodeVars, perfVars, recVars, wsVars, viewVars, appVars, levelVars, searchVars, histVars>>

CallToggleFilter(id) ==
    /\ SetCM(toggleFilter(CM, id))
    /\ last' = NoLast
    /\ UNCHANGED <<restVars, nodeVars, perfVars, recVars, wsVars, viewVars, appVars, levelVars, searchVars, histVars>>

CallAdd(name, code, t) ==
    /\ \E r \in {add(CM, name, code, t)} :
           /\ SetCM(r.cm)
           /\ last' = [op |-> "add", id |-> r.ret, ok |-> r.ret # 0,
                       t |-> Measured(~AtCapacity(CM) /\ TrialRuns(code), t)]
    /\ UNCHANGED <<restVars, nodeVars, perfVars, recVars, wsVars, viewVars, appVars, levelVars, searchVars, histVars>>

\* window.ChecksManager.runCheck(check, log) with a stored check and the
\* stored entry i, an execution taking t ms if there is one.  last.id is the
\* pair of the entry and the check, last.ok and last.t are the row returned.
CallRunCheck(id, i, t) ==
    /\ \E r \in {runCheck(CM, id, logs[i], t)} :
           /\ SetCM(r.cm)
           /\ last' = [op |-> IF last.op = "enable" /\ last.id = <<logs[i].id, id>>
                              THEN "runCheck after enable" ELSE "runCheck",
                       id |-> <<logs[i].id, id>>, ok |-> r.ret.result, t |-> r.ret.time]
    /\ UNCHANGED <<restVars, nodeVars, perfVars, recVars, wsVars, viewVars, appVars, levelVars, searchVars, histVars>>

\* window.ChecksManager.remove(id), for any id
CallRemove(id) ==
    /\ SetCM(remove(CM, id))
    /\ last' = [op |-> "remove", id |-> id, ok |-> id \in CheckIds(CM), t |-> 0]
    /\ UNCHANGED <<restVars, nodeVars, perfVars, recVars, wsVars, viewVars, appVars, levelVars, searchVars, histVars>>

\* window.ChecksManager.update(id, name, code), for any id, with a trial
\* execution of t ms
CallUpdate(id, name, code, t) ==
    /\ \E r \in {update(CM, id, name, code, t)} :
           /\ SetCM(r.cm)
           /\ last' = [op |-> "update", id |-> id, ok |-> r.ret,
                       t |-> Measured(id \in CheckIds(CM) /\ TrialRuns(code), t)]
    /\ UNCHANGED <<restVars, nodeVars, perfVars, recVars, wsVars, viewVars, appVars, levelVars, searchVars, histVars>>

Patterns == UNION {[1..n -> Chars] : n \in 0..MaxPat}

\* _fullRender() at the end of a handler that leaves the filter state fs
RenderNewFilter(fs) ==
    \E tau \in Taus(CM, logs) :
    \E r \in {fullRender(fs, CM, logs, tau)} :
        /\ logElements' = r.elements
        /\ SetView(fullRenderView(V, ContentHeight(logs, logElements),
                                  ContentHeight(logs, r.elements), Len(logs)))
        /\ SetCM(r.cm)

\* _updateSearchFilter(): setSearchFilter, then _fullRender
UpdateSearchFilter(filter, isRegex) ==
    /\ \E sf \in {setSearchFilter(filter, isRegex)} :
           /\ searchFilter' = sf.searchFilter
           /\ isRegexMode' = sf.isRegexMode
           /\ searchRegex' = sf.searchRegex
           /\ RenderNewFilter([FilterState EXCEPT !.search = sf])
    /\ filterInput' = filter
    /\ last' = NoLast
    /\ UNCHANGED <<userScroll, filterDebounceTimer, debounceTimers, sinceInput, frameVars, nodeVars, perfVars, recVars, wsVars, logs, logIdCounter, bufferSize, levelVars, histVars>>

\* the handles of the timeouts of the debounce
DebounceIds == 1..MaxDebounce

\* the clock of the debounce ticks DebounceSteps times in debounceDelay ms
DebounceTicks(ms) == (ms * DebounceSteps) \div debounceDelay
DebounceMs(ticks) == (ticks * debounceDelay) \div DebounceSteps

\* a listener that arms a timeout and leaves the pending one armed
armDebounceKeeping(timer, pending) ==
    Then(FreshIn(DebounceIds, DOMAIN pending), LAMBDA t :
        [timer |-> t, pending |-> (t :> DebounceTicks(debounceDelay)) @@ pending])

\* the 'input' listener of filterInput: clearTimeout of the timeout the field
\* holds, then setTimeout(..., 500); the field and the pending timeouts after
armDebounce(timer, pending) ==
    Then(IF timer # 0 THEN Restrict(pending, DOMAIN pending \ {timer}) ELSE pending,
         LAMBDA cleared :
            Then(FreshIn(DebounceIds, DOMAIN cleared), LAMBDA t :
                [timer |-> t, pending |-> (t :> DebounceTicks(debounceDelay)) @@ cleared]))

\* an input event of filterInput: the user has changed the text to text.
\* last.t counts the input events that followed one another, last.ok tells
\* whether a timeout was pending.
FilterInput(text) ==
    /\ text # filterInput
    /\ filterInput' = text
    /\ \E d \in {armDebounce(filterDebounceTimer, debounceTimers)} :
           /\ filterDebounceTimer' = d.timer
           /\ debounceTimers' = d.pending
           /\ last' = [op |-> "input", id |-> d.timer, ok |-> debounceTimers # <<>>,
                       t |-> IF last.op = "input" THEN last.t + 1 ELSE 1]
    /\ sinceInput' = 0
    /\ UNCHANGED <<userScroll, frameVars, nodeVars, perfVars, recVars, wsVars, viewVars, appVars,
                   levelVars, searchVars, cmVars, histVars>>

\* one tick of the clock passes without an event; a timeout that is due fires
\* first
DebounceTick ==
    /\ \A t \in DOMAIN debounceTimers : debounceTimers[t] > 0
    /\ debounceTimers # <<>> \/ sinceInput <= DebounceSteps
    /\ debounceTimers' = [t \in DOMAIN debounceTimers |-> debounceTimers[t] - 1]
    /\ sinceInput' = Min(sinceInput + 1, DebounceSteps + 1)
    /\ UNCHANGED <<userScroll, filterInput, filterDebounceTimer, frameVars, nodeVars, perfVars,
                   recVars, wsVars, viewVars, appVars, levelVars, searchVars, cmVars, histVars,
                   last>>

\* the timeout t of the debounce fires: _updateSearchFilter() with the text
\* of the input and the state of the regex toggle, then the field is reset.
\* last.id is the number of input events that followed one another before,
\* last.t the ms since the last of them.
DebounceTimeout(t) ==
    /\ t \in DOMAIN debounceTimers /\ debounceTimers[t] = 0
    /\ \E sf \in {setSearchFilter(filterInput, isRegexMode)} :
           /\ searchFilter' = sf.searchFilter
           /\ isRegexMode' = sf.isRegexMode
           /\ searchRegex' = sf.searchRegex
           /\ RenderNewFilter([FilterState EXCEPT !.search = sf])
    /\ filterDebounceTimer' = 0
    /\ debounceTimers' = Restrict(debounceTimers, DOMAIN debounceTimers \ {t})
    /\ last' = [op |-> "debounce", id |-> IF last.op = "input" THEN last.t ELSE 0,
                ok |-> searchFilter # filterInput, t |-> DebounceMs(sinceInput)]
    /\ UNCHANGED <<userScroll, filterInput, sinceInput, frameVars, nodeVars, perfVars, recVars,
                   wsVars, logs, logIdCounter, bufferSize, levelVars, histVars>>

\* a click on regexToggle: the class is switched and _updateSearchFilter()
\* runs at once, with the text the input holds
RegexToggleClick ==
    /\ \E sf \in {setSearchFilter(filterInput, ~isRegexMode)} :
           /\ searchFilter' = sf.searchFilter
           /\ isRegexMode' = sf.isRegexMode
           /\ searchRegex' = sf.searchRegex
           /\ RenderNewFilter([FilterState EXCEPT !.search = sf])
    /\ last' = [op |-> "regex", id |-> 0, ok |-> searchFilter # filterInput,
                t |-> DebounceMs(sinceInput)]
    /\ UNCHANGED <<userScroll, inputVars, frameVars, nodeVars, perfVars, recVars, wsVars, logs,
                   logIdCounter, bufferSize, levelVars, histVars>>

\* a click on a level button: _toggleLogLevel(level), which ends in _fullRender
ToggleLogLevel(level) ==
    /\ \E levels \in {IF level \in enabledLogLevels
                       THEN enabledLogLevels \ {level}
                       ELSE enabledLogLevels \cup {level}} :
           /\ enabledLogLevels' = levels
           /\ RenderNewFilter([FilterState EXCEPT !.levels = levels])
    /\ last' = NoLast
    /\ UNCHANGED <<restVars, nodeVars, perfVars, recVars, wsVars, logs, logIdCounter, bufferSize, selectedFiles, lineFilters,
                   searchVars, histVars>>

\* a click on a file of the file list, which shows the files of the entries
\* received: the file is selected or deselected, then _fullRender
ToggleFile(file) ==
    /\ \E i \in 1..Len(logs) : getFileFromCallLine(logs[i].callLine) = file
    /\ \E files \in {IF file \in selectedFiles THEN selectedFiles \ {file}
                      ELSE selectedFiles \cup {file}} :
       \E lines \in {IF file \in selectedFiles
                      THEN Restrict(lineFilters, DOMAIN lineFilters \ {file})
                      ELSE lineFilters} :
           /\ selectedFiles' = files
           /\ lineFilters' = lines
           /\ RenderNewFilter([FilterState EXCEPT !.files = files, !.lines = lines])
    /\ last' = NoLast
    /\ UNCHANGED <<restVars, nodeVars, perfVars, recVars, wsVars, logs, logIdCounter, bufferSize, enabledLogLevels,
                   searchVars, histVars>>

\* recordBtn: _toggleRecording().  The entries of recordDatas are dated on
\* arrival, so the sort of _saveRecording leaves their order as it is.
ToggleRecording ==
    /\ IF isRecording
       THEN isRecording' = FALSE /\ UNCHANGED recordDatas
       ELSE isRecording' = TRUE /\ recordDatas' = <<>>
    /\ last' = NoLast
    /\ UNCHANGED <<restVars, nodeVars, perfVars, wsVars, viewVars, appVars, levelVars, searchVars,
                   cmVars, histVars>>

\* clearFilesBtn: the selection and the line ranges are emptied, then _fullRender
ClearFiles ==
    /\ selectedFiles' = {}
    /\ lineFilters' = <<>>
    /\ RenderNewFilter([FilterState EXCEPT !.files = {}, !.lines = <<>>])
    /\ last' = NoLast
    /\ UNCHANGED <<restVars, nodeVars, perfVars, recVars, wsVars, logs, logIdCounter, bufferSize,
                   enabledLogLevels, searchVars, histVars>>

\* saveLineRangesBtn of the dialog that the line button of a selected file
\* opens: _saveLineRanges(), which ends in _fullRender
SaveLineRanges(file, ranges) ==
    /\ file \in selectedFiles
    /\ \E lines \in {IF Len(ranges) > 0
                      THEN (file :> ranges) @@ lineFilters
                      ELSE Restrict(lineFilters, DOMAIN lineFilters \ {file})} :
           /\ lineFilters' = lines
           /\ RenderNewFilter([FilterState EXCEPT !.lines = lines])
    /\ last' = NoLast
    /\ UNCHANGED <<restVars, nodeVars, perfVars, recVars, wsVars, logs, logIdCounter, bufferSize,
                   enabledLogLevels, selectedFiles, searchVars, histVars>>

\* the scroll listener of logsContainer:
\* `this._autoScroll = this._isAtBottom(); this._updateScrollIndicator();`
OnScroll ==
    /\ scrollPending
    /\ SetView(updateScrollIndicator(
           [V EXCEPT !.autoScroll = isAtBottom(ContentHeight(logs, logElements), scrollTop),
                     !.scrollPending = FALSE],
           Len(logs)))
    /\ userScroll' = "none"
    /\ last' = NoLast
    /\ UNCHANGED <<inputVars, frameVars, nodeVars, perfVars, recVars, wsVars, appVars, levelVars, searchVars, cmVars, histVars>>

\* the positions the user scrolls to: the top, the bottom, and the two
\* positions on either side of the threshold of _isAtBottom
ScrollStops(content) ==
    {top \in {0, MaxScrollTop(content) - atBottomThreshold,
              MaxScrollTop(content) - atBottomThreshold + 1, MaxScrollTop(content)} :
        top >= 0}

\* the user scrolls the list with the wheel or the scroll bar
UserScroll(top) ==
    /\ top # scrollTop
    /\ SetView(setScrollTop(V, top, ContentHeight(logs, logElements)))
    /\ userScroll' = IF isAtBottom(ContentHeight(logs, logElements), top)
                     THEN "to the bottom" ELSE "away"
    /\ last' = NoLast
    /\ UNCHANGED <<inputVars, frameVars, nodeVars, perfVars, recVars, wsVars, appVars, levelVars, searchVars, cmVars, histVars>>

\* a click on scrollIndicator or backToLiveBtn, shown while the indicator is
\* visible: _scrollToBottom()
ScrollToBottom ==
    /\ indicatorVisible
    /\ SetView(updateScrollIndicator(
           [setScrollTop(V, scrollHeight(ContentHeight(logs, logElements)),
                         ContentHeight(logs, logElements))
              EXCEPT !.autoScroll = TRUE],
           Len(logs)))
    /\ userScroll' = "button"
    /\ last' = NoLast
    /\ UNCHANGED <<inputVars, frameVars, nodeVars, perfVars, recVars, wsVars, appVars, levelVars, searchVars, cmVars, histVars>>

(***************************************************************************)
(* Specifications.  The counters of the program are unbounded; each        *)
(* specification stops appending, clearing and creating at its bounds.     *)
(***************************************************************************)
\* the handlers of the checks panel, for at most n checks ever created
ChecksNext(n) ==
    \/ \E name \in Names, c \in Codes, t \in TrialTimes :
          /\ checkIdCounter < n \/ add(CM, name, c, t).ret = 0
          /\ SaveNewCheck(name, c, t)
    \/ \E id \in CheckIds(CM), name \in Names, c \in Codes, t \in TrialTimes :
            SaveEditedCheck(id, name, c, t)
    \/ \E id \in CheckIds(CM), e \in BOOLEAN : ChangeCheckbox(id, e)
    \/ \E id \in CheckIds(CM) : DeleteCheck(id)
    \/ DisableAllChecks
    \/ \E id \in CheckIds(CM) : ClickFilterChip(id)
    \/ \E id \in CheckIds(CM), e \in BOOLEAN : CallSetEnabled(id, e)
    \/ CallEnableAll
    \/ \E id \in CheckIds(CM) : CallToggleFilter(id)
    \/ \E i \in 1..Len(logs) : OpenLogDetail(i)

\* the transport is connected once and left alone
LinkUp ==
    \/ /\ sockets = <<>>
       /\ Connect
    \/ \E s \in SocketIds : SocketOpen(s)

\* the handlers of the store, for at most n entries between two clear-all
StoreNext(n) ==
    \/ LinkUp
    \/ /\ logIdCounter < n
       /\ \E d \in LogDatas : AddLog(d)
    \/ \E i \in 1..MaxBuffer : SetBufferSize(i)
    \/ /\ epoch < MaxClears
       /\ ClearLogs

Next == StoreNext(MaxLogId) \/ ChecksNext(MaxCheckId)

Spec == Init /\ [][Next]_vars

\* only the store is driven, for more entries
SpecStore == Init /\ [][StoreNext(MaxStoreLogId)]_vars

\* the search box is driven over a small store
SearchNext ==
    \/ LinkUp
    \/ /\ logIdCounter < MaxLogId
       /\ \E d \in LogDatas : AddLog(d)
    \/ \E filter \in Patterns, isRegex \in BOOLEAN : UpdateSearchFilter(filter, isRegex)

SpecSearch == Init /\ [][SearchNext]_vars

\* the user types into the filter input, in bursts of up to MaxBurst input
\* events with up to debounceDelay ms between them, and clicks the regex
\* toggle, while an entry arrives
InputTexts == {<<>>, <<"a">>, <<"[">>}

DebounceNext ==
    \/ LinkUp
    \/ /\ logIdCounter < MaxRegistryLogId
       /\ \E d \in LogDatas : AddLog(d)
    \/ \E text \in InputTexts :
          /\ last.op = "input" => last.t < MaxBurst
          /\ Cardinality(DOMAIN debounceTimers) < MaxDebounce
          /\ FilterInput(text)
    \/ DebounceTick
    \/ \E t \in DebounceIds : DebounceTimeout(t)
    \/ RegexToggleClick

SpecDebounce == Init /\ [][DebounceNext]_vars

\* the level buttons are driven, over a small store and the checks panel
ToggledLevels == {"info", "error", "debug"}

LevelsNext ==
    \/ LinkUp
    \/ /\ logIdCounter < MaxLogId
       /\ \E d \in LogDatas : AddLog(d)
    \/ \E level \in ToggledLevels : ToggleLogLevel(level)
    \/ \E c \in Codes, t \in TrialTimes :
          /\ checkIdCounter < MaxCheckId \/ add(CM, "", c, t).ret = 0
          /\ SaveNewCheck("", c, t)
    \/ \E id \in CheckIds(CM) : ClickFilterChip(id)

SpecLevels == Init /\ [][LevelsNext]_vars

\* the list is scrolled by the user and by the handlers while entries of
\* both heights arrive, as long as the store has room, and a level is switched
ViewNext ==
    \/ LinkUp
    \/ /\ Len(logs) < bufferSize
       /\ \E d \in LogDatas \cup {TallLogData} : AddLog(d)
    \/ \E top \in ScrollStops(ContentHeight(logs, logElements)) : UserScroll(top)
    \/ OnScroll
    \/ ScrollToBottom
    \/ ToggleLogLevel("info")

SpecView == Init /\ [][ViewNext]_vars

\* the same while the user also clears the logs
ScrollNext ==
    \/ ViewNext
    \/ /\ epoch < MaxClears
       /\ ClearLogs

SpecScroll == Init /\ [][ScrollNext]_vars

\* every kind of event that changes the store or the filter state, over a
\* small store and one check
DisplayNext ==
    \/ LinkUp
    \/ /\ logIdCounter < MaxLogId
       /\ \E d \in LogDatas : AddLog(d)
    \/ \E i \in 1..MaxBuffer : SetBufferSize(i)
    \/ /\ epoch < MaxClears
       /\ ClearLogs
    \/ ToggleLogLevel("info")
    \/ \E filter \in {<<>>, <<"[">>} : UpdateSearchFilter(filter, FALSE)
    \/ ToggleFile("a.js")
    \/ \E t \in TrialTimes :
          /\ checkIdCounter < MaxCheckId \/ add(CM, "", "isError", t).ret = 0
          /\ SaveNewCheck("", "isError", t)
    \/ \E id \in CheckIds(CM), t \in TrialTimes : SaveEditedCheck(id, "", "throwOnInfo", t)
    \/ \E id \in CheckIds(CM), e \in BOOLEAN : ChangeCheckbox(id, e)
    \/ \E id \in CheckIds(CM) : DeleteCheck(id)
    \/ DisableAllChecks
    \/ \E id \in CheckIds(CM) : ClickFilterChip(id)

SpecDisplay == Init /\ [][DisplayNext]_vars

\* entries arrive while the recording is switched on and off and a level is
\* switched
RecordingNext ==
    \/ LinkUp
    \/ /\ logIdCounter < MaxLogId
       /\ \E d \in LogDatas : AddLog(d)
    \/ ToggleRecording
    \/ ToggleLogLevel("info")

SpecRecording == Init /\ [][RecordingNext]_vars

\* files are selected and line ranges are saved while entries from every kind
\* of call site arrive
FilesNext ==
    \/ LinkUp
    \/ /\ logIdCounter < MaxLogId
       /\ \E d \in LogDatas \cup CallSiteLogDatas : AddLog(d)
    \/ \E file \in {"a.js", "c.js"} : ToggleFile(file)
    \/ \E file \in {"a.js", "c.js"}, ranges \in LineRanges : SaveLineRanges(file, ranges)
    \/ ClearFiles

SpecFiles == Init /\ [][FilesNext]_vars

\* Logger instances are constructed, directly and through createLogger, the
\* global and the instance levels are set and cleared, and the log methods
\* are called
LoggerNext ==
    \/ /\ Len(loggers) < MaxLoggers
       /\ \/ \E config \in Configs, useGlobalConfig \in BOOLEAN :
                NewLogger(config, useGlobalConfig)
          \/ \E config \in Configs : CreateLogger(config)
    \/ \E l \in Thresholds : ConfSetLevel(l)
    \/ \E c \in Configs : ConfSet(c)
    \/ \E i \in 1..Len(loggers), l \in Thresholds : ConfigSetLevel(i, l)
    \/ \E i \in 1..Len(loggers) : ClearConfig(i)
    \/ \E i \in 1..Len(loggers), method \in Methods : CallMethod(i, method)

SpecLogger == Init /\ [][LoggerNext]_vars

\* production mode is switched on, with and without a `logs` object, and off;
\* loggers are created, with and without a level, the global level is set and
\* the methods are called
ProductionNext ==
    \/ \E config \in ProductionConfigs : EnableProduction(config)
    \/ DisableProduction
    \/ /\ Len(loggers) < MaxLoggers
       /\ \E config \in Configs \ {"colors" :> FALSE} : CreateLogger(config)
    \/ \E l \in Thresholds : ConfSetLevel(l)
    \/ \E i \in 1..Len(loggers), method \in Methods : CallMethod(i, method)

SpecProduction == Init /\ [][ProductionNext]_vars

\* production mode is switched on and off while loggers are created and
\* bound, also from bound loggers, and warn and error are called
BindNext ==
    \/ \E config \in ProductionConfigs : EnableProduction(config)
    \/ DisableProduction
    \/ /\ Len(loggers) < MaxBound
       /\ \/ CreateLogger(<<>>)
          \/ \E i \in 1..Len(loggers) : Bind(i)
    \/ \E i \in 1..Len(loggers), method \in {"warn", "error"} : CallMethod(i, method)

SpecBind == Init /\ [][BindNext]_vars

\* checks are added, edited, deleted, enabled and disabled while entries
\* arrive, and runCheck is called on the stored entries
RunCheckNext ==
    \/ LinkUp
    \/ /\ logIdCounter < MaxRunLogId
       /\ \E d \in LogDatas : AddLog(d)
    \/ /\ checkIdCounter < MaxRunCheckId
       /\ \E c \in {"isError", "throwOnError"} : CallAdd("", c, trialThreshold)
    \/ \E id \in CheckIds(CM) : SaveEditedCheck(id, "", "throwOnError", trialThreshold)
    \/ \E id \in CheckIds(CM) : DeleteCheck(id)
    \/ DisableAllChecks
    \/ \E id \in CheckIds(CM), e \in BOOLEAN : CallSetEnabled(id, e)
    \/ CallEnableAll
    \/ \E id \in CheckIds(CM), i \in 1..Len(logs), t \in ExecTimes : CallRunCheck(id, i, t)

SpecRunCheck == Init /\ [][RunCheckNext]_vars

\* entries arrive and are cleared while one check is stored, and runCheck is
\* called on the stored entries
StaleNext ==
    \/ LinkUp
    \/ /\ logIdCounter < MaxRunLogId
       /\ \E d \in LogDatas : AddLog(d)
    \/ /\ checkIdCounter < MaxCheckId
       /\ CallAdd("", "isError", trialThreshold)
    \/ /\ epoch < MaxClears
       /\ ClearLogs
    \/ \E id \in CheckIds(CM), i \in 1..Len(logs), t \in ExecTimes : CallRunCheck(id, i, t)

SpecStale == Init /\ [][StaleNext]_vars

\* the registry is driven through window.ChecksManager alone, with ids that
\* are stored and ids that are not, while entries arrive
RegistryNext ==
    \/ LinkUp
    \/ /\ logIdCounter < MaxRegistryLogId
       /\ \E d \in LogDatas : AddLog(d)
    \/ /\ checkIdCounter < MaxRunCheckId
       /\ CallAdd("", "throwOnError", trialThreshold)
    \/ \E id \in 1..MaxRunCheckId : CallRemove(id)
    \/ \E id \in 1..MaxRunCheckId, c \in {"isError", "throwOnInfo", "syntax"},
           t \in TrialTimes : CallUpdate(id, "", c, t)
    \/ \E id \in CheckIds(CM) : CallToggleFilter(id)
    \/ \E id \in CheckIds(CM), i \in 1..Len(logs), t \in ExecTimes : CallRunCheck(id, i, t)

SpecRegistry == Init /\ [][RegistryNext]_vars

\* the registry is filled to its capacity with one source text, through the
\* dialog and through the exported object; the newest check can be deleted
FullNext ==
    \/ \E t \in TrialTimes : SaveNewCheck("", "isError", t)
    \/ \E t \in TrialTimes : CallAdd("", "isError", t)
    \/ /\ checks # <<>>
       /\ checkIdCounter - Len(checks) < MaxDeleted
       /\ DeleteCheck(checks[Len(checks)].id)

SpecFull == Init /\ [][FullNext]_vars

\* the transport: connect() and disconnect() at any time and the events of the
\* sockets and of the timers; the reconnect timeout fires while _reconnectAttempts
\* is below maxAttempts
TransportNext(maxAttempts) ==
    \/ /\ AlreadyConnected(W) \/ Cardinality(DOMAIN sockets) < MaxSockets
       /\ Connect
    \/ Disconnect
    \/ \E s \in SocketIds : SocketOpen(s)
    \/ \E s \in SocketIds :
          /\ manualDisconnect \/ Cardinality(DOMAIN timers) < MaxTimers
          /\ SocketClose(s)
    \/ \E t \in TimerIds :
          /\ reconnectAttempts < maxAttempts
          /\ AlreadyConnected(W) \/ Cardinality(DOMAIN sockets) < MaxSockets
          /\ ReconnectTimeout(t)
    \/ \E t \in TimerIds : CountdownTick(t)

SpecTransport == Init /\ [][TransportNext(MaxAttempts)]_vars

\* the server broadcasts log frames while the transport is connected,
\* disconnected and reconnected, and the open sockets deliver what they got
BroadcastNext ==
    \/ TransportNext(1)
    \/ /\ serial < MaxSerial
       /\ broadcastLog(CHOOSE d \in LogDatas : d.type = "log-error")
    \/ \E s \in SocketIds : Deliver(s)

SpecBroadcast == Init /\ [][BroadcastNext]_vars

\* the frames the open sockets deliver, log events for at most n entries
FramesNext(n, times) ==
    \E s \in SocketIds, frame \in Frames :
        /\ (frame.json /\ frame.data.type \in logTypes) => logIdCounter < n
        /\ OnMessage(s, frame, times)
        /\ UNCHANGED frameVars

\* a transport that is connected and disconnected by the user delivers frames of
\* every kind to the store
SpecFrames ==
    Init /\ [][\/ StoreNext(MaxLogId)
               \/ FramesNext(MaxLogId, ExecTimes)
               \/ Disconnect
               \/ \E s \in SocketIds : manualDisconnect /\ SocketClose(s)]_vars

\* execution times around the killswitch threshold and beyond the overload
\* threshold of _addLog
SlowTimes == {killswitchThreshold, overloadThreshold + 1}

\* entries arrive while checks are slow: one check is saved, switched through the
\* exported registry and through its checkbox, and the socket that _addLog
\* disconnects closes
OverloadNext ==
    \/ LinkUp
    \/ FramesNext(MaxLogId, SlowTimes)
    \/ \E t \in TrialTimes :
          /\ checkIdCounter < MaxCheckId \/ add(CM, "", "isError", t).ret = 0
          /\ SaveNewCheck("", "isError", t)
    \/ \E id \in CheckIds(CM), e \in BOOLEAN : CallSetEnabled(id, e)
    \/ \E id \in CheckIds(CM), e \in BOOLEAN : ChangeCheckbox(id, e)
    \/ \E s \in SocketIds : manualDisconnect /\ SocketClose(s)

SpecOverload == Init /\ [][OverloadNext]_vars

\* the transport left alone by the user after the connect() of init(): the
\* sockets open, fail and drop, and the reconnect schedules run
BackoffNext ==
    \/ /\ last.op = "none"
       /\ Connect
    \/ \E s \in SocketIds : SocketOpen(s)
    \/ \E s \in SocketIds : SocketClose(s)
    \/ \E t \in TimerIds :
          /\ reconnectAttempts < MaxBackoffAttempts
          /\ ReconnectTimeout(t)
    \/ \E t \in TimerIds : CountdownTick(t)

SpecBackoff == Init /\ [][BackoffNext]_vars

(***************************************************************************)
(* Properties.                                                             *)
(***************************************************************************)
\* the stored entries and the entries the next frame can create
Entries == SeqToSet(logs) \cup {NewLog(logIdCounter, d) : d \in LogDatas}

\* trial and execution times around the two thresholds
TrialRange == 0..(trialThreshold + 2)
ExecRange == {0, killswitchThreshold, killswitchThreshold + 1}

HasRow(id, log) == <<log.id, id>> \in DOMAIN resultCache

\* ---- C1 ----
\* the entries that n appends leave in a store of capacity cap: the last
\* min(n, cap) payloads of the history, numbered in arrival order
Survivors(n, cap) ==
    [i \in 1..Min(n, cap) |-> NewLog(n - Min(n, cap) + i - 1, hist[n - Min(n, cap) + i])]

\* C1: after n appends under one capacity C, the store holds exactly the min(n, C)
\* most recently appended entries, in arrival order; the ids of the stored entries
\* are always strictly increasing.
C1_RetainsMostRecent ==
    /\ \A i, j \in 1..Len(logs) : i < j => logs[i].id < logs[j].id
    /\ ~capChanged => logs = Survivors(Len(hist), bufferSize)

\* more than one entry has been evicted under an unchanged capacity
C1_Witness == ~capChanged /\ Len(hist) > bufferSize + 1 /\ Len(logs) = bufferSize

\* ---- C2 ----
\* C2: every cache row of a stored entry was produced for that entry, so runCheck
\* (which returns the row of the pair unconditionally) never returns a row produced
\* for an entry that is no longer in the store.
C2_NoStaleRow ==
    \A log \in SeqToSet(logs) : \A id \in CheckIds(CM) :
        HasRow(id, log) => cacheEpoch[<<log.id, id>>] = epoch

\* ---- C3 ----
\* C3 as stated: for every killed check and every stored entry, runCheck returns
\* passed=false with evalMillis=0 and executes nothing.
C3_KilledAlwaysNeutral ==
    \A id \in CheckIds(CM) : CheckById(CM, id).killed =>
        \A log \in SeqToSet(logs) : \A t \in ExecRange :
            /\ runCheck(CM, id, log, t).ret = NeutralResult
            /\ ~runCheck(CM, id, log, t).exec

\* C3 amended: for every killed check and every entry that has no cache row for the
\* pair, runCheck returns passed=false with evalMillis=0, executes nothing and
\* changes nothing, whatever the enabled flag.
C3_KilledNeutralWithoutRow ==
    \A id \in CheckIds(CM) : CheckById(CM, id).killed =>
        \A log \in Entries : ~HasRow(id, log) =>
            \A t \in ExecRange :
                runCheck(CM, id, log, t) = [cm |-> CM, ret |-> NeutralResult, exec |-> FALSE]

\* a killed check whose enabled flag was set again, and a stored entry without a row
C3_Witness ==
    \E id \in CheckIds(CM) : \E log \in SeqToSet(logs) :
        /\ CheckById(CM, id).killed
        /\ CheckById(CM, id).enabled
        /\ ~HasRow(id, log)

\* ---- C4 ----
\* C4: a successful update of a killed check leaves killed=false and no cache row of
\* the check, and the very next runCheck of the check on a stored entry executes
\* the new predicate.
C4_UpdateRevives ==
    \A id \in CheckIds(CM) : CheckById(CM, id).killed =>
        \A name \in Names, code \in Codes, t \in TrialRange :
            update(CM, id, name, code, t).ret =>
                /\ ~CheckById(update(CM, id, name, code, t).cm, id).killed
                /\ \A k \in DOMAIN update(CM, id, name, code, t).cm.resultCache : k[2] # id
                /\ \A log \in SeqToSet(logs) : \A t2 \in ExecRange :
                       runCheck(update(CM, id, name, code, t).cm, id, log, t2).exec

\* ---- C5 ----
\* an execution over the threshold kills: killed=true and enabled=false afterwards
C5_OverThresholdKills ==
    \A id \in CheckIds(CM) : \A log \in Entries : \A t \in ExecRange :
        (runCheck(CM, id, log, t).exec /\ t > killswitchThreshold) =>
            /\ CheckById(runCheck(CM, id, log, t).cm, id).killed
            /\ ~CheckById(runCheck(CM, id, log, t).cm, id).enabled

\* a killed check is not executed and is not in getEnabled(), also right after
\* setEnabled, enableAll or toggleFilter
C5_KilledStaysOut ==
    \A id \in CheckIds(CM) : CheckById(CM, id).killed =>
        \A cm \in {CM, enableAll(CM), toggleFilter(CM, id),
                   setEnabled(CM, id, TRUE), setEnabled(CM, id, FALSE)} :
            /\ CheckById(cm, id).killed
            /\ id \notin SeqToSet(getEnabled(cm).ret)
            /\ \A log \in Entries : \A t \in ExecRange : ~runCheck(cm, id, log, t).exec

\* a stored check stops being killed only in a successful update of that check
C5_KilledUntilUpdate ==
    \A id \in CheckIds(CM) :
        (CheckById(CM, id).killed /\ id \in CheckIds(CM)' /\ ~CheckById(CM, id)'.killed)
            => (last'.op = "update" /\ last'.ok /\ last'.id = id)

\* C5: an execution longer than 25ms sets killed=true and enabled=false; from then
\* on no setEnabled, enableAll or toggleFilter makes the check execute or appear in
\* getEnabled(), until a successful update of that check.
C5_KillIsSticky ==
    /\ [](C5_OverThresholdKills /\ C5_KilledStaysOut)
    /\ [][C5_KilledUntilUpdate]_vars

\* a killed check that is in the filter set and whose enabled flag was set again,
\* with a stored entry it was never run on
C5_Witness ==
    \E id \in CheckIds(CM) : \E log \in SeqToSet(logs) :
        /\ CheckById(CM, id).killed
        /\ CheckById(CM, id).enabled
        /\ id \in SeqToSet(checksFilter)
        /\ ~HasRow(id, log)
        /\ \E other \in SeqToSet(logs) : HasRow(id, other)

\* ---- C6 ----
\* C6 as stated: add with a trial execution of 10ms or more is rejected and changes
\* nothing.
C6_RejectsTenOrMore ==
    \A name \in Names, code \in Codes, t \in TrialRange :
        t >= trialThreshold => add(CM, name, code, t) = [cm |-> CM, ret |-> 0]

\* C6 amended: add with a trial execution of more than 10ms is rejected (null) and
\* leaves the checks, the id counter and the caches as they were.
C6_RejectsOverTen ==
    \A name \in Names, code \in Codes, t \in TrialRange :
        t > trialThreshold => add(CM, name, code, t) = [cm |-> CM, ret |-> 0]

\* the dialog has just had an add rejected for its trial time, with a check and a
\* cache row in the registry
C6_Witness ==
    /\ last.op = "add" /\ ~last.ok /\ last.t > trialThreshold
    /\ checks # <<>>
    /\ resultCache # <<>>

\* ---- C7 ----
\* C7: the registry never holds more than 100 checks, and an add attempted while
\* 100 are stored is rejected and changes nothing.
C7_AtMostMaxChecks ==
    /\ Len(checks) <= maxChecks
    /\ Len(checks) = maxChecks =>
          \A name \in Names, code \in Codes, t \in TrialRange :
              add(CM, name, code, t) = [cm |-> CM, ret |-> 0]

\* an add has just been rejected by a registry of 100 checks
C7_Witness == Len(checks) = maxChecks /\ last.op = "add" /\ ~last.ok

\* ---- C8 ----
\* a row of a stored entry and a stored check is what runCheck returns, with no
\* execution and no change
C8_RowIsReturned ==
    \A id \in CheckIds(CM) : \A log \in SeqToSet(logs) :
        HasRow(id, log) =>
            \A t \in ExecRange :
                runCheck(CM, id, log, t) =
                    [cm |-> CM, ret |-> resultCache[<<log.id, id>>], exec |-> FALSE]

\* a row keeps its value unless its entry leaves the store, its check is removed or
\* its check is successfully updated
C8_RowKept ==
    \A k \in DOMAIN resultCache :
        \/ k \in DOMAIN resultCache' /\ resultCache'[k] = resultCache[k]
        \/ k[1] \notin LogIds(logs')
        \/ k[2] \notin CheckIds(CM)'
        \/ last'.op = "update" /\ last'.ok /\ last'.id = k[2]

\* C8: once runCheck has produced a result for a pair (entry id, check id), every
\* later runCheck of the pair returns the same passed and evalMillis without
\* executing, until the row is purged by eviction, update or remove.
C8_CachedResultStable ==
    /\ []C8_RowIsReturned
    /\ [][C8_RowKept]_vars

\* an enabled, not killed check with a row produced by an execution on a stored entry
C8_Witness ==
    \E id \in CheckIds(CM) : \E log \in SeqToSet(logs) :
        /\ CheckById(CM, id).enabled
        /\ ~CheckById(CM, id).killed
        /\ HasRow(id, log)
        /\ resultCache[<<log.id, id>>].time = killswitchThreshold
        /\ resultCache[<<log.id, id>>].result

\* ---- C9 ----
\* C9: _shouldShowLog returns true for an entry only if every check id of the filter
\* set evaluates to passed=true for that entry through runCheck.
C9_ShownOnlyIfAllRequiredPass ==
    \A log \in SeqToSet(logs) : \A tau \in Taus(CM, <<log>>) :
        shouldShowLog(CM, log, tau).ret =>
            \A id \in SeqToSet(checksFilter) :
                runCheck(shouldShowLog(CM, log, tau).cm, id, log, TimeOf(tau, log, id)).ret.result

\* ---- C10 ----
\* C10: in regex mode with a non-empty pattern that is no valid regular expression,
\* the search stage matches no entry.
C10_InvalidRegexMatchesNothing ==
    (isRegexMode /\ searchFilter # <<>> /\ RegExpCompile(searchFilter) = None) =>
        \A log \in SeqToSet(logs) : ~SearchStage(log)

\* ---- C11 ----
\* with the search, the files and line ranges, the registry, the store and the
\* execution times fixed, every stored entry that passes _shouldShowLog with a level
\* removed from the enabled levels passes it with the level left in
C11_FixedStateSubset ==
    \A level \in LOG_LEVELS :
    \A log \in SeqToSet(logs) : \A tau \in Taus(CM, <<log>>) :
        shouldShowLogAt([FilterState EXCEPT !.levels = enabledLogLevels \ {level}],
                        CM, log, tau).ret
            => shouldShowLog(CM, log, tau).ret

\* a click that disables a level and leaves the checks as they are gives a display
\* element only to entries that passed _shouldShowLog before the click
C11_ToggleOffShowsNothingNew ==
    [][(enabledLogLevels' \subseteq enabledLogLevels
            /\ enabledLogLevels' # enabledLogLevels /\ checks' = checks)
        => logElements' \subseteq {log.id : log \in {l \in SeqToSet(logs) :
                \A tau \in Taus(CM, <<l>>) : shouldShowLog(CM, l, tau).ret}}]_vars

\* C11: for a fixed search, file and line filter, check configuration and store,
\* disabling a level never adds an entry to the entries that pass _shouldShowLog:
\* the set after disabling is a subset of the set before.
C11_DisablingLevelAddsNothing ==
    []C11_FixedStateSubset /\ C11_ToggleOffShowsNothingNew

\* a level was disabled by its button and hides a stored entry, another stays shown
C11_Witness ==
    /\ \E log \in SeqToSet(logs) : log.type \in DefaultLogLevels \ enabledLogLevels
    /\ \E log \in SeqToSet(logs) : log.id \in logElements

\* ---- C12 ----
\* connect() creates a socket only when no socket is connecting or open
C12_ConnectOnlyWhenIdle ==
    [][(last'.op \in {"connect", "reconnect"} /\ DOMAIN sockets' # DOMAIN sockets)
            => Alive(W) = {}]_vars

\* at most one socket is connecting or open
C12_OneLiveSocket == Cardinality(Alive(W)) <= 1

\* C12: connect() opens a connection only when none is open or being established
\* and is a no-op otherwise, so at most one socket with live handlers (connecting
\* or open) exists at any time, whatever the interleaving of connect(),
\* disconnect(), reconnect timeouts and socket events.
C12_SingleConnection == []C12_OneLiveSocket /\ C12_ConnectOnlyWhenIdle

\* ---- C13 ----
\* after disconnect() and until the user calls connect(), no countdown update is
\* written
C13_NoCountdownAfterDisconnect ==
    [][(offByUser /\ offByUser') => ~(last'.op = "countdown" /\ last'.ok)]_vars

\* after disconnect() and until the user calls connect(), no reconnect timeout
\* fires and none is armed
C13_NoReconnectAfterDisconnect ==
    [][(offByUser /\ offByUser')
            => /\ last'.op # "reconnect"
               /\ ~(last'.op = "close" /\ last'.ok)]_vars

\* disconnect() leaves no timeout and no countdown interval behind
C13_DisconnectCancelsAll ==
    [][last'.op = "disconnect" => timers' = <<>>]_vars

\* C13: after disconnect() no automatic reconnect attempt is made and no reconnect
\* countdown update is emitted until the user calls connect() again: disconnect()
\* cancels every pending reconnect timeout and countdown.
C13_QuietAfterDisconnect ==
    /\ C13_NoCountdownAfterDisconnect
    /\ C13_NoReconnectAfterDisconnect
    /\ C13_DisconnectCancelsAll

\* ---- C14 ----
\* the delay d, in sixteenths of a millisecond, is min(1000 * 1.5^k, 15000) ms
IsBackoffDelay(d, k) ==
    IF baseReconnectDelay * 3^k >= maxReconnectDelay * 2^k
    THEN d = maxReconnectDelay * PerMs
    ELSE d * 2^k = baseReconnectDelay * PerMs * 3^k

\* a close that is not intentional arms a timeout of min(1000 * 1.5^k, 15000) ms,
\* k being _reconnectAttempts: 1000 ms for k = 0, at least 1000 ms and at most
\* 15000 ms for every k
C14_DelayOfSchedule ==
    (last.op = "close" /\ last.ok) =>
        /\ IsBackoffDelay(last.t, reconnectAttempts)
        /\ reconnectTimer \in DOMAIN timers /\ timers[reconnectTimer].delay = last.t
        /\ reconnectAttempts = 0 => last.t = 1000 * PerMs
        /\ 1000 * PerMs <= last.t /\ last.t <= 15000 * PerMs

\* the delay never decreases from one attempt to the next
C14_DelayMonotone ==
    \A k \in 0..MaxBackoffAttempts : getReconnectDelay(k) <= getReconnectDelay(k + 1)

\* k counts the reconnect attempts since the last open: the firing of a reconnect
\* timeout adds one, an open resets it, nothing else changes it
C14_CountsAttempts ==
    [][/\ last'.op = "reconnect" => reconnectAttempts' = reconnectAttempts + 1
       /\ last'.op = "open" => reconnectAttempts' = 0
       /\ last'.op \notin {"reconnect", "open"} => reconnectAttempts' = reconnectAttempts]_vars

C14_WitnessFraction ==
    /\ last.op = "close" /\ last.ok
    /\ reconnectAttempts = 4 /\ last.t * 2 = 10125 * PerMs

\* ---- C16 ----
\* the handler of a frame that fails JSON.parse changes nothing: the socket stays
\* open, the store, the id counter and the registry are as before
C16_BadFrameChangesNothing ==
    [][last'.op = "parse error"
        => /\ UNCHANGED <<appVars, cmVars, wsVars, histVars>>
           /\ last'.id \in DOMAIN sockets' /\ sockets'[last'.id] = "open"]_vars

\* the log event that follows such a frame is stored under the next id
C16_NextFrameProcessed ==
    [][(last.op = "parse error" /\ Len(hist') > Len(hist))
        => /\ logIdCounter' = logIdCounter + 1
           /\ logs' # <<>>
           /\ logs'[Len(logs')] = NewLog(logIdCounter, hist'[Len(hist')])]_vars

\* C16: a received frame that fails JSON parsing leaves the connection open and
\* the log store unchanged (no entry appended, no id consumed), and the frames
\* received after it are still processed.
C16_BadFrameDropped ==
    /\ C16_BadFrameChangesNothing
    /\ C16_NextFrameProcessed
    /\ [](last.op = "parse error" =>
            /\ sockets[last.id] = "open"
            /\ logIdCounter = Len(hist))

\* a frame that is no JSON was received on a connection that has delivered entries
C16_Witness ==
    /\ last.op = "parse error"
    /\ logs # <<>>
    /\ isConnected

\* ---- C15 ----
\* C15: whenever the connection is open, _reconnectAttempts is 0, so the first
\* reconnect after an established connection drops is scheduled with 1000 ms.
C15_OpenMeansNoAttempts ==
    /\ isConnected => reconnectAttempts = 0
    /\ (\E s \in DOMAIN sockets : sockets[s] = "open") => reconnectAttempts = 0

\* ---- C17 ----
\* the ids of the store increase strictly from the oldest entry to the newest,
\* none exceeds the counter, and the counter is the number of entries appended
\* since the last clear-all
C17_IdsIncrease ==
    /\ \A i, j \in 1..Len(logs) : i < j => logs[i].id < logs[j].id
    /\ \A i \in 1..Len(logs) : logs[i].id \in 1..logIdCounter
    /\ logIdCounter = Len(hist)

\* an append gives the entry the id after the counter, above every id given since
\* the last clear-all; the counter goes back only by a clear-all, and an eviction
\* or a capacity change leaves it as it is
C17_IdsNeverReused ==
    [][/\ Len(hist') > Len(hist) =>
            /\ logs'[Len(logs')].id = logIdCounter + 1
            /\ logIdCounter' = logIdCounter + 1
            /\ \A i \in 1..Len(logs) : logs[i].id < logs'[Len(logs')].id
       /\ logIdCounter' < logIdCounter => epoch' = epoch + 1
       /\ (hist' = hist /\ epoch' = epoch) => logIdCounter' = logIdCounter]_vars

\* C17: entry ids are assigned in arrival order and are strictly increasing; no id
\* is assigned twice between two clear-all operations, and eviction or a capacity
\* change never resets or reuses an id.
C17_IdsInArrivalOrder == []C17_IdsIncrease /\ C17_IdsNeverReused

\* entries were evicted and the capacity was changed, and the newest entry carries
\* the number of entries appended
C17_Witness ==
    /\ capChanged
    /\ Len(hist) >= 3
    /\ Len(logs) < Len(hist)
    /\ logs # <<>> /\ logs[Len(logs)].id = Len(hist)

\* ---- C18 ----
\* C18: if the check executions of one _addLog take more than 1000 ms in all, then
\* when the handler returns the transport has been disconnected by disconnect():
\* the disconnect is marked intentional, _ws is given up and no socket is left
\* open to deliver the next frame, and no reconnect is scheduled.
C18_OverloadDisconnects ==
    last.op = "overload" =>
        /\ last.ok
        /\ manualDisconnect
        /\ ws = 0
        /\ \A s \in DOMAIN sockets : sockets[s] # "open"
        /\ timers = <<>>

\* the executions inside _updateChecksResultsHeader took more than 1000 ms
C18_HeaderOverload == last.op = "overload" /\ last.ok

\* ---- C19 ----
\* a step that appends an entry to the store
Arrives == logIdCounter' = logIdCounter + 1 /\ Len(logs') > 0

\* the entry of such a step passes the filter pipeline of the state after it
ArrivedPasses ==
    \E tau \in Taus(CM, <<logs'[Len(logs')]>>) :
        shouldShowLog(CM, logs'[Len(logs')], tau).ret

\* the view is at the bottom, within the threshold, and follows the newest entry
Following == isAtBottom(ContentHeight(logs, logElements), scrollTop) /\ autoScroll

\* C19, the append: an element is appended for an arriving entry only if the
\* entry passes the pipeline, the view is within 50px of the bottom and
\* auto-scroll is not suspended
C19_AppendedOnlyWhenFollowing ==
    [][Arrives /\ logIdCounter' \in logElements' => ArrivedPasses /\ Following]_vars

\* in every other case the view is not scrolled and the indicator is visible
C19_OtherwiseIndicator ==
    [][Arrives /\ ~(ArrivedPasses /\ Following)
         => scrollTop' = scrollTop /\ indicatorVisible']_vars

\* C19, whole: when an entry arrives, its element is appended to the list only if
\* the entry passes the filter pipeline, the view is within 50px of the bottom
\* and auto-scroll is not suspended; in every other case no element is
\* appended, the view is not scrolled and the new-logs indicator is visible
C19_IncrementalAppend ==
    [][Arrives =>
         IF ArrivedPasses /\ Following
         THEN logIdCounter' \in logElements'
         ELSE /\ logIdCounter' \notin logElements'
              /\ scrollTop' = scrollTop
              /\ indicatorVisible']_vars

\* what _addLog does: the element is appended whenever the entry passes, the
\* view is scrolled only when it was following, and the indicator is visible
\* exactly while auto-scroll is suspended
C19_AppendWheneverPasses ==
    [][Arrives =>
         /\ logIdCounter' \in logElements' <=> ArrivedPasses
         /\ ~Following => scrollTop' = scrollTop
         /\ indicatorVisible' = ~autoScroll]_vars

\* an element was appended while auto-scroll was suspended
C19_AppendedWhileSuspended ==
    /\ ~autoScroll
    /\ indicatorVisible
    /\ logIdCounter > 0
    /\ logIdCounter \in logElements
    /\ ~isAtBottom(ContentHeight(logs, logElements), scrollTop)
    /\ Len(hist) = 2

\* ---- C20 ----
\* _shouldShowLog(log) in the current state, for the execution times tau
ShouldDisplay(log, tau) == shouldShowLog(CM, log, tau).ret

\* the stored entries the filter pipeline admits in the current state
ShouldDisplayIds(tau) == {logs[i].id : i \in {j \in 1..Len(logs) : ShouldDisplay(logs[j], tau)}}

\* C20: after every event the displayed entries are exactly the stored
\* entries for which the filter pipeline answers true under the current
\* filter state
C20_DisplayedIsShouldDisplay ==
    \A tau \in Taus(CM, logs) : logElements = ShouldDisplayIds(tau)

\* no entry is displayed that the pipeline rejects
C20_NothingStaleDisplayed ==
    \A tau \in Taus(CM, logs) : logElements \subseteq ShouldDisplayIds(tau)

\* a check of the checks filter was stopped by the killswitch while entries
\* it had rejected stay hidden
C20_KilledFilterHides ==
    /\ \E i \in 1..Len(checks) :
          checks[i].killed /\ checks[i].id \in SeqToSet(checksFilter)
    /\ \E tau \in Taus(CM, logs) : ShouldDisplayIds(tau) \ logElements # {}

\* ---- C21 ----
\* the store, the displayed set and the counters of the monitor are empty
Cleared ==
    /\ logs = <<>>
    /\ logElements = {}
    /\ logIdCounter = 0
    /\ renderTimes = 0 /\ checksTimes = 0
    /\ logsReceivedTimes = 0 /\ logsDisplayedTimes = 0
    /\ lastRoadtripDelay = 0

\* the state a clear-all leaves is wholly cleared
C21_ClearedInOneStep == last.op = "clear" => Cleared

\* no state shows a part of a clear-all: while the id counter is 0 nothing is
\* stored, displayed or counted
C21_NoPartialState ==
    logIdCounter = 0 =>
        /\ logs = <<>> /\ logElements = {}
        /\ renderTimes = 0 /\ checksTimes = 0
        /\ logsReceivedTimes = 0 /\ logsDisplayedTimes = 0

\* the entry appended to a cleared store gets id 1
C21_NextIdIsOne ==
    [][(last.op = "clear" /\ Len(logs') > 0) => logs'[Len(logs')].id = 1]_vars

C21_WitnessNextEntry ==
    /\ epoch = 1 /\ Len(logs) = 1 /\ logs[1].id = 1 /\ logsReceivedTimes = 1

\* ---- C22 ----
\* the last n entries of the sequence ls
LastEntries(ls, n) == SubSeq(ls, Len(ls) - n + 1, Len(ls))

\* a change of the capacity trims the store, in the same step, to its most
\* recent entries, in order, and removes the elements of the evicted entries
C22_TrimmedInSameStep ==
    [][last'.op = "capacity" =>
          /\ logs' = LastEntries(logs, Min(Len(logs), bufferSize'))
          /\ logElements' = logElements \cap LogIds(logs')
          /\ last'.id = Len(logs) - Len(logs')]_vars

\* the store never holds more entries than the capacity, and only stored
\* entries have a display element
C22_WithinCapacity == Len(logs) <= bufferSize /\ logElements \subseteq LogIds(logs)

\* C22: when the user changes the capacity to C', the store is trimmed in the
\* same step to at most C' entries, the most recent ones in order, and the
\* display element of every evicted entry is removed; after every operation
\* the store holds at most as many entries as the current capacity
C22_CapacityReEnforced == C22_TrimmedInSameStep /\ []C22_WithinCapacity

\* the slider lowered the capacity below the size of the store and an entry
\* that was displayed has been evicted
C22_Witness ==
    /\ last.op = "capacity" /\ last.id > 0 /\ last.ok
    /\ Len(logs) = bufferSize

\* ---- C23 ----
\* the frame of the entry that arrives in a step
ArrivedFrame == hist'[Len(hist')]

\* C23: while the recording is on, every entry received from the transport is
\* added to it exactly once; an entry received while it is off is never
\* added; starting a recording begins from an empty recording
C23_RecordsEveryEntry ==
    [][/\ (Arrives /\ isRecording) => recordDatas' = Append(recordDatas, ArrivedFrame)
       /\ (Arrives /\ ~isRecording) => recordDatas' = recordDatas
       /\ (~isRecording /\ isRecording') => recordDatas' = <<>>
       /\ (~Arrives /\ isRecording) => recordDatas' = recordDatas]_vars

\* what _addLog does: the entry is added once while the recording is on and
\* the entry is displayed, and never otherwise
C23_RecordsDisplayedEntries ==
    [][/\ (Arrives /\ isRecording /\ logIdCounter' \in logElements')
            => recordDatas' = Append(recordDatas, ArrivedFrame)
       /\ (Arrives /\ ~(isRecording /\ logIdCounter' \in logElements'))
            => recordDatas' = recordDatas
       /\ (~isRecording /\ isRecording') => recordDatas' = <<>>
       /\ (~Arrives /\ isRecording) => recordDatas' = recordDatas]_vars

\* an entry was received while the recording was on and is not in it
C23_ReceivedNotRecorded ==
    /\ isRecording /\ recordDatas = <<>>
    /\ logsReceivedTimes = 1 /\ logsDisplayedTimes = 0
    /\ "info" \notin enabledLogLevels

\* ---- C24 ----
\* the origin file and line of an entry
OriginFile(log) == getFileFromCallLine(log.callLine)
OriginLine(log) == getLineFromCallLine(log.callLine)

\* the line ranges configured for a file
RangesOf(file) == IF file \in DOMAIN lineFilters THEN lineFilters[file] ELSE <<>>

\* the file stage as the contract words it
FileContract(log) ==
    \/ selectedFiles = {}
    \/ /\ OriginFile(log) # "" /\ OriginFile(log) \in selectedFiles
       /\ RangesOf(OriginFile(log)) # <<>> =>
             \E i \in 1..Len(RangesOf(OriginFile(log))) :
                /\ RangesOf(OriginFile(log))[i][1] <= OriginLine(log)
                /\ OriginLine(log) <= RangesOf(OriginFile(log))[i][2]

\* C24: with an empty file selection the file stage passes every entry; with
\* a non-empty selection it passes an entry iff the origin file of the entry
\* is selected and, when that file has line ranges, the origin line lies
\* within at least one range, both ends included.  The levels, the search and
\* the checks filter pass every entry here, so the displayed entries are the
\* entries the file stage passes.
C24_FileStage ==
    /\ \A log \in Entries \cup {NewLog(logIdCounter, d) : d \in CallSiteLogDatas} :
          FileStage(log) <=> FileContract(log)
    /\ logElements = {logs[i].id : i \in {j \in 1..Len(logs) : FileContract(logs[j])}}

\* an entry on the first line of a range and one on the last line of a range
\* are displayed while a file with ranges is selected
C24_Witness ==
    /\ selectedFiles = {"a.js"}
    /\ RangesOf("a.js") = << <<1, 2>>, <<3, 3>> >>
    /\ Len(logs) = 2 /\ logElements = {1, 2}
    /\ OriginLine(logs[1]) = 1 /\ OriginLine(logs[2]) = 3

\* entries without a line, or from a file that is not selected, are hidden
C24_WitnessHidden ==
    /\ selectedFiles = {"c.js"}
    /\ RangesOf("c.js") # <<>>
    /\ Len(logs) = 2 /\ logElements = {}
    /\ OriginFile(logs[1]) = "c.js" /\ OriginFile(logs[2]) = "b.js"

\* ---- C25 ----
\* the instance override of the level of a logger is set
OverrideSet(logger) == ~logger.useGlobal /\ "level" \in DOMAIN logger.overrides

\* the effective threshold of a logger: the instance override when one is
\* set, the current global level otherwise
EffectiveThreshold(logger) ==
    IF OverrideSet(logger) THEN logger.overrides["level"] ELSE globalConfig.level

\* C25: a call of the log method of level L of a logger writes to the console
\* iff the effective threshold of the logger, taken at the time of the call,
\* is at least L
C25_WritesIffThresholdReached ==
    [][called' # called =>
          (called'.wrote <=>
              EffectiveThreshold(loggers[called'.logger]) >= LEVELS[called'.method])]_vars

\* a logger with an override at the level of a method has written through
\* that method while the global level is below it
C25_Witness ==
    /\ called.method = "silly" /\ called.wrote
    /\ OverrideSet(loggers[called.logger])
    /\ EffectiveThreshold(loggers[called.logger]) = LEVELS["silly"]
    /\ globalConfig.level < LEVELS["silly"]

\* a logger whose override was cleared follows the global level, which was
\* lowered after the logger was constructed: the call has not written
C25_WitnessGlobal ==
    /\ called.method = "log" /\ ~called.wrote
    /\ ~OverrideSet(loggers[called.logger]) /\ ~loggers[called.logger].useGlobal
    /\ globalConfig.level = 55

\* ---- C26 ----
\* C26: a logger that createLogger returned in production mode with no `logs`
\* configuration writes to the console only through fatal and error: a call
\* of silly, verbose, debug, log, info, success or warn writes nothing,
\* whatever the level of the logger is
C26_OnlyFatalAndError ==
    [][(called' # called /\ loggers[called'.logger].defaults
           /\ called'.method \notin {"fatal", "error"})
          => ~called'.wrote]_vars

\* what createLogger does: of such a logger, verbose, debug, log, info,
\* success and warn write nothing, and silly is left to the level gate
C26_AllButSilly ==
    [][(called' # called /\ loggers[called'.logger].defaults)
          => /\ called'.method \notin {"fatal", "error", "silly"} => ~called'.wrote
             /\ called'.method = "silly" =>
                   (called'.wrote <=>
                       EffectiveThreshold(loggers[called'.logger]) >= LEVELS["silly"])]_vars

\* a logger created in production mode without `logs`, at the level of
\* silly, has written through silly
C26_SillyWritten ==
    /\ called.method = "silly" /\ called.wrote
    /\ loggers[called.logger].defaults

\* such a logger, at the level of silly, has written nothing through warn
C26_WarnSilenced ==
    /\ called.method = "warn" /\ ~called.wrote
    /\ loggers[called.logger].defaults
    /\ EffectiveThreshold(loggers[called.logger]) = LEVELS["silly"]

\* ---- C27 ----
\* the check and the entry of the call of runCheck that a step makes
CalledCheck == CheckById(CM, last'.id[2])
CalledEntry == logs[CHOOSE i \in 1..Len(logs) : logs[i].id = last'.id[1]]
RunCheckCalled == last'.op \in {"runCheck", "runCheck after enable"}
RunCheckWasCalled == last.op \in {"runCheck", "runCheck after enable"}

\* runCheck on a disabled check without a cache row answers that the check
\* failed in 0 ms and leaves the cache as it is
C27_DisabledAnswersWithoutRow ==
    [][(RunCheckCalled /\ ~CalledCheck.enabled /\ last'.id \notin DOMAIN resultCache)
          => /\ ~last'.ok /\ last'.t = 0
             /\ resultCache' = resultCache]_vars

\* the call that follows the enabling of that check, on the same entry,
\* executes the predicate and returns and caches what it gave
C27_ExecutedAfterEnable ==
    [][(last'.op = "runCheck after enable" /\ ~CalledCheck.killed)
          => /\ last'.id \notin DOMAIN resultCache /\ last'.id \in DOMAIN resultCache'
             /\ last'.ok = (CallFn(CalledCheck.code, CalledEntry) = "true")
             /\ last'.t \in ExecTimes
             /\ resultCache'[last'.id] = [result |-> last'.ok, time |-> last'.t]]_vars

\* C27: runCheck on a disabled check that has no cache row for the entry
\* returns {passed: false, evalMillis: 0} and creates no cache row, so that
\* after the check is enabled again the next runCheck on the same entry
\* executes the predicate and returns its real result
C27_DisabledIsNotCached == C27_DisabledAnswersWithoutRow /\ C27_ExecutedAfterEnable

\* a check that was disabled when runCheck was called on an entry was enabled,
\* and the next call on the entry has executed it and found that it passes
C27_Witness ==
    /\ last.op = "runCheck after enable" /\ last.ok /\ last.t = killswitchThreshold
    /\ last.id \in DOMAIN resultCache
    /\ CheckById(CM, last.id[2]).enabled

\* ---- C28 ----
\* the checks other than id, and the cache rows of the checks other than id
OtherChecks(cs, id) == {c \in SeqToSet(cs) : c.id # id}
OtherRows(cache, id) == Restrict(cache, {k \in DOMAIN cache : k[2] # id})

\* the call of runCheck of this step has fired the killswitch
KillswitchFired == RunCheckCalled /\ ~CalledCheck.killed /\ CheckById(CM', last'.id[2]).killed

\* C28: when the killswitch fires for a check, the enabled and killed flags,
\* the source and the cached results of every other check are what they were
\* before that call of runCheck
C28_KillLeavesOthersAlone ==
    [][KillswitchFired =>
          /\ OtherChecks(checks', last'.id[2]) = OtherChecks(checks, last'.id[2])
          /\ OtherRows(resultCache', last'.id[2]) = OtherRows(resultCache, last'.id[2])
          /\ CheckById(CM', last'.id[2]).code = CalledCheck.code]_vars

\* the killswitch has fired for the second check while the first check is
\* enabled and has a cached result
C28_Witness ==
    /\ RunCheckWasCalled /\ last.t > killswitchThreshold
    /\ Len(checks) = 2 /\ last.id[2] = checks[2].id
    /\ checks[2].killed /\ ~checks[2].enabled
    /\ checks[1].enabled /\ ~checks[1].killed
    /\ \E k \in DOMAIN resultCache : k[2] = checks[1].id

\* ---- C29 ----
\* C29: when the predicate of a check throws on an entry, runCheck returns
\* passed = false (the error goes no further: the call returns a row and
\* caches it); if the execution took no more than 25 ms the check stays
\* enabled and not killed, and it is executed as usual on the entries for
\* which it has no row
C29_ThrowIsFailure ==
    [][(RunCheckCalled /\ ~Skipped(CalledCheck) /\ last'.id \notin DOMAIN resultCache)
          => /\ last'.id \in DOMAIN resultCache'
             /\ resultCache'[last'.id] = [result |-> last'.ok, time |-> last'.t]
             /\ last'.ok = (CallFn(CalledCheck.code, CalledEntry) = "true")
             /\ CallFn(CalledCheck.code, CalledEntry) = "throw" =>
                   /\ ~last'.ok
                   /\ last'.t <= killswitchThreshold =>
                         /\ checks' = checks
                         /\ ~Skipped(CheckById(CM', last'.id[2]))]_vars

\* a check whose predicate threw on the first entry, an error, has been
\* executed on the second entry, where it passes
C29_Witness ==
    /\ RunCheckWasCalled /\ last.ok /\ last.id[1] = 2
    /\ Len(logs) = 2 /\ logs[1].type = "error"
    /\ CheckById(CM, last.id[2]).code = "throwOnError"
    /\ <<1, last.id[2]>> \in DOMAIN resultCache
    /\ ~resultCache[<<1, last.id[2]>>].result
    /\ resultCache[<<1, last.id[2]>>].time = killswitchThreshold
    /\ ~Skipped(CheckById(CM, last.id[2]))

\* the predicate of an enabled check has just thrown within 25 ms
C29_WitnessThrown ==
    /\ RunCheckWasCalled /\ ~last.ok /\ last.t = killswitchThreshold
    /\ \E i \in 1..Len(logs) :
          /\ logs[i].id = last.id[1]
          /\ CallFn(CheckById(CM, last.id[2]).code, logs[i]) = "throw"
    /\ ~Skipped(CheckById(CM, last.id[2]))

\* ---- C30 ----
\* C30: after any sequence of add, update, remove, setEnabled, disableAll,
\* enableAll and runCheck, with the killswitch, getEnabled() returns exactly
\* the stored checks that are enabled and not killed, in the stored order
C30_EnabledMemoIsFresh == getEnabled(CM).ret = EnabledIds(CM)

\* the memo is filled and holds the one check of two that the killswitch has
\* not stopped
C30_Witness ==
    /\ enabledChecksCache # None
    /\ Len(checks) = 2 /\ checks[1].killed /\ ~checks[1].enabled
    /\ getEnabled(CM).ret = <<checks[2].id>>
    /\ RunCheckWasCalled

\* ---- C31 ----
\* C31: remove(id) deletes the check with that id, takes id out of the checks
\* filter and deletes every cache row of that check; every other check,
\* every other member of the filter and every other cache row stays as it
\* was, in order; remove of an id that is not stored changes nothing
C31_RemoveFrame ==
    [][last'.op = "remove" =>
          IF last'.id \in CheckIds(CM)
          THEN /\ last'.id \notin CheckIds(CM')
               /\ checks' = FilterSeq(checks, OtherChecks(checks, last'.id))
               /\ checksFilter' = RemoveFromSeq(checksFilter, last'.id)
               /\ resultCache' = OtherRows(resultCache, last'.id)
               /\ checkIdCounter' = checkIdCounter
          ELSE UNCHANGED <<checks, checkIdCounter, resultCache, checksFilter>>]_vars

\* the first of two checks was removed; it had been in the filter, and the
\* second check is still in the filter and still has a row
C31_Witness ==
    /\ last.op = "remove" /\ last.ok /\ last.id = 1
    /\ Len(checks) = 1 /\ checks[1].id = 2
    /\ checksFilter = <<2>>
    /\ DOMAIN resultCache # {} /\ \A k \in DOMAIN resultCache : k[2] = 2

\* remove was called with an id that is not stored while a check is stored
C31_WitnessUnknown ==
    /\ last.op = "remove" /\ ~last.ok /\ checks # <<>> /\ DOMAIN resultCache # {}

\* ---- C32 ----
\* C32: an update that is rejected - the id is not stored, the source does
\* not compile, the trial execution throws or takes more than 10 ms - leaves
\* the name, the source, the enabled and killed flags of every check and
\* every cached result as they were
C32_RejectedUpdateChangesNothing ==
    [][(last'.op = "update" /\ ~last'.ok)
          => UNCHANGED <<checks, checkIdCounter, resultCache, checksFilter>>]_vars

\* an update of a stored, killed check that has a cached result was rejected
\* because the trial execution took more than 10 ms
C32_Witness ==
    /\ last.op = "update" /\ ~last.ok /\ last.t > trialThreshold
    /\ last.id \in CheckIds(CM) /\ CheckById(CM, last.id).killed
    /\ \E k \in DOMAIN resultCache : k[2] = last.id

\* an update of a stored check was rejected before the trial execution could
\* be measured: the source does not compile or the trial execution throws
C32_WitnessInvalid ==
    /\ last.op = "update" /\ ~last.ok /\ last.t = 0
    /\ last.id \in CheckIds(CM)
    /\ \E k \in DOMAIN resultCache : k[2] = last.id

\* an update was called with an id that is not stored
C32_WitnessUnknown ==
    /\ last.op = "update" /\ ~last.ok /\ last.id \notin CheckIds(CM) /\ checks # <<>>

\* ---- C34 ----
\* the reconnect schedules whose timeout has not fired and was not cleared
PendingReconnects == {t \in DOMAIN timers : timers[t].timeout}

\* C34: at any time at most one reconnect timer is pending, for any
\* interleaving of socket close events, firings of the reconnect timer and
\* calls of connect()
C34_OneReconnectTimer == Cardinality(PendingReconnects) <= 1

\* what the code keeps: of the pending reconnect timers, _reconnectTimer is
\* the one that was armed last, so that disconnect() can clear that one only
C34_HandleIsPending ==
    PendingReconnects # {} => reconnectTimer \in PendingReconnects

\* two reconnect timers are pending while one socket at most exists: the
\* second close event came from the socket of a connect() that was called
\* while the first timer was pending
C34_TwoTimersOneSocket ==
    /\ Cardinality(PendingReconnects) = 2
    /\ last.op = "close" /\ last.ok
    /\ sockets = <<>>

\* ---- C35 ----
\* C35: exactly while the connection is open one heartbeat timer is armed: no
\* open connection is without a heartbeat timer, and no heartbeat timer is
\* armed while no connection is open
C35_HeartbeatIffOpen ==
    pingInterval <=> \E s \in DOMAIN sockets : sockets[s] = "open"

\* what holds of the code: the heartbeat timer is armed only while a socket
\* is open, and it is armed whenever the socket the manager holds is open
C35_HeartbeatOnlyWhileOpen ==
    /\ pingInterval => \E s \in DOMAIN sockets : sockets[s] = "open"
    /\ (ws # 0 /\ sockets[ws] = "open") => pingInterval

\* a socket is open and no heartbeat timer is armed, though no two sockets
\* were ever open or connecting together: the close event of the socket that
\* disconnect() closed came after the socket of the next connect() had opened
C35_OpenWithoutHeartbeat ==
    /\ ~pingInterval /\ ws = 0
    /\ \E s \in DOMAIN sockets : sockets[s] = "open"
    /\ Cardinality(DOMAIN sockets) = 1
    /\ last.op = "close"

\* ---- C39 ----
\* C39: in every reachable state the checks filter holds only ids of checks
\* that are stored, enabled and not killed
C39_FilterOnlyLiveChecks ==
    \A id \in SeqToSet(checksFilter) :
        /\ id \in CheckIds(CM)
        /\ CheckById(CM, id).enabled
        /\ ~CheckById(CM, id).killed

\* what holds of the code when the filter is toggled through the chips
\* only: the filter holds ids of stored checks, each enabled or killed
C39_FilterOnlyStoredChecks ==
    \A id \in SeqToSet(checksFilter) :
        /\ id \in CheckIds(CM)
        /\ CheckById(CM, id).enabled \/ CheckById(CM, id).killed

\* the killswitch has stopped a check of the checks filter, and its id is
\* still in the filter
C39_KilledInFilter ==
    \E id \in SeqToSet(checksFilter) :
        /\ id \in CheckIds(CM)
        /\ CheckById(CM, id).killed /\ ~CheckById(CM, id).enabled

\* ---- C37 ----
\* C37: every row runCheck returns for an entry was computed by running the
\* check on that same entry: its result is what the code of the check
\* answers on the entry, also after clear-all and new appends
C37_ResultIsOfThatEntry ==
    (RunCheckWasCalled /\ last.id \in DOMAIN resultCache)
        => \A i \in 1..Len(logs) : logs[i].id = last.id[1] =>
               last.ok = caughtResult(CallFn(CheckById(CM, last.id[2]).code, logs[i]))

\* what holds of the code: the row returned was computed on an entry that
\* had the id of this entry when the row was computed
C37_ResultIsOfThatId ==
    (RunCheckWasCalled /\ last.id \in DOMAIN resultCache)
        => /\ last.id \in DOMAIN cacheEpoch
           /\ cacheEpoch[last.id] <= epoch

\* runCheck has answered true for an info entry and a check that tests for
\* errors: the row was cached for the error entry that had this id before
\* clear-all
C37_StaleRowReturned ==
    /\ last.op = "runCheck" /\ last.ok
    /\ epoch = 1 /\ cacheEpoch[last.id] = 0
    /\ \E i \in 1..Len(logs) : logs[i].id = last.id[1] /\ logs[i].type = "info"
    /\ CheckById(CM, last.id[2]).code = "isError"

\* ---- C36 ----
\* C36: once auto-scroll is suspended, it becomes active again only through
\* an explicit scroll to the bottom by the user (the button, or a scroll of
\* the list that ends at the bottom); no incoming entry, full rebuild,
\* eviction or other event re-enables it
C36_RestoredOnlyByUser ==
    [][(~autoScroll /\ autoScroll')
          => (userScroll' = "button" \/ userScroll = "to the bottom")]_vars

\* what holds of the code: auto-scroll is switched on by _scrollToBottom and
\* by the scroll listener only, and by the listener only at the bottom
C36_RestoredOnlyAtBottom ==
    [][(~autoScroll /\ autoScroll')
          => /\ userScroll' \in {"button", "none"}
             /\ isAtBottom(ContentHeight(logs', logElements'), scrollTop')]_vars

\* that a scroll of the user is waiting for its scroll event is not needed:
\* the scroll event that re-enables auto-scroll can be the one the browser
\* queues when the list shrinks under the scroll position
C36_RestoredOnlyAfterUser ==
    [][(~autoScroll /\ autoScroll')
          => (userScroll' = "button" \/ userScroll # "none")]_vars

\* ---- C40 ----
\* C40: a log method that is a no-op on a logger is a no-op on every logger
\* obtained from it by bind, also through chained binds, for any sequence of
\* enableProduction, disableProduction, createLogger and bind
C40_BindKeepsNoops ==
    \A i \in 1..Len(loggers) :
        loggers[i].boundFrom # 0 => loggers[loggers[i].boundFrom].noops \subseteq loggers[i].noops

\* what holds of the code: the no-ops of a bound logger are those of the
\* production mode at the time of the bind, and after it of any mode at all
C40_NoopsOfSomeMode ==
    \A i \in 1..Len(loggers) :
        \E prod \in BOOLEAN, config \in ProductionConfigs :
            loggers[i].noops = disabledMethods(prod, config)

\* a logger bound from a bound logger has written a warning, and warn is a
\* no-op on the logger that createLogger returned in production mode
C40_BoundWritesWhatParentDrops ==
    /\ called.logger # 0 /\ called.method = "warn" /\ called.wrote
    /\ loggers[called.logger].boundFrom # 0
    /\ loggers[loggers[called.logger].boundFrom].boundFrom # 0
    /\ "warn" \in loggers[loggers[loggers[called.logger].boundFrom].boundFrom].noops

\* ---- C38 ----
\* C38: each log frame the server sends is appended to the log store at most
\* once, for any interleaving of connect(), disconnect(), reconnect timeouts
\* and open and close events of the sockets
C38_IngestedAtMostOnce ==
    \A i, j \in 1..Len(ingested) : ingested[i] = ingested[j] => i = j

\* what holds of the code: a frame is appended once for each socket that
\* was open when the server sent it, at most, and nothing else is appended
C38_OncePerSocket ==
    /\ \A k \in 1..serial :
           Cardinality({i \in 1..Len(ingested) : ingested[i] = k}) <= MaxSockets
    /\ Len(hist) = Len(ingested)

\* the one frame the server has sent so far is stored twice, under two ids
C38_StoredTwice ==
    /\ serial = 1 /\ ingested = <<1, 1>>
    /\ Len(logs) = 2 /\ logs[1].id # logs[2].id

\* ---- C33 ----
\* at most one timeout of the debounce is pending, and it is the one the
\* field holds; a timeout fires debounceDelay ms after the last input event,
\* and then the filter in force is the text of the input and no timeout is
\* left; after more than debounceDelay ms without an input event no timeout
\* is pending and the filter in force is the text of the input
C33_OneTimerFiringOnTime ==
    /\ Cardinality(DOMAIN debounceTimers) <= 1
    /\ DOMAIN debounceTimers = {filterDebounceTimer} \ {0}
    /\ last.op = "debounce" =>
           /\ last.t = debounceDelay
           /\ debounceTimers = <<>>
           /\ searchFilter = filterInput
    /\ DebounceMs(sinceInput) > debounceDelay =>
           /\ debounceTimers = <<>>
           /\ searchFilter = filterInput

\* while a timeout of the debounce is pending, the filter in force changes
\* only when the timeout fires (or the regex toggle is clicked, which is no
\* input event), and an update follows an input event only through the
\* timeout
C33_NoUpdateBeforeFiring ==
    (debounceTimers # <<>> /\ SF' # SF) => last'.op \in {"debounce", "regex"}

\* C33: a burst of input events of the filter text causes exactly one update
\* of the search filter and full rebuild, 500 ms after the last input event
\* of the burst; at most one timeout of the debounce is pending at any time,
\* and the search filter in force does not change before it fires
C33_Debounced == [](C33_OneTimerFiringOnTime) /\ [][C33_NoUpdateBeforeFiring]_vars

\* the timeout has fired after a burst of three input events, 500 ms after
\* the last of them, and has changed the filter in force to the text of the
\* input, over a stored entry
C33_Witness ==
    /\ last.op = "debounce" /\ last.id = MaxBurst /\ last.ok
    /\ last.t = debounceDelay
    /\ searchFilter = filterInput /\ filterInput # <<>>
    /\ logs # <<>>

\* an input event has replaced a timeout that was pending: the burst goes
\* on, one timeout is pending with the full delay, the filter in force is
\* still the old one
C33_WitnessRearmed ==
    /\ last.op = "input" /\ last.ok /\ last.t >= 2
    /\ sinceInput = 0
    /\ \E t \in DOMAIN debounceTimers : debounceTimers[t] = DebounceTicks(debounceDelay)
    /\ searchFilter # filterInput

====
